---- MODULE Spec2Model ----
(***************************************************************************)
(* py-symbol-analyze: the symbol store (cache.py), the project indexer     *)
(* (parser.py, ProjectParser) and the dependency resolver (resolver.py),   *)
(* as a state machine over a small project on disk.                        *)
(*                                                                         *)
(* The project (root /p) holds three files:                                *)
(*                                                                         *)
(*   /p/main.py            1  from utils import helper, Helper, filter     *)
(*                         3  class Main:                                  *)
(*                         4      def helper(self):                        *)
(*                         5          return transform(self)               *)
(*                         7  def run():                                   *)
(*                         8      h = Helper()                             *)
(*                         9      helper(filter(h))                        *)
(*                        10      return gen_tool()                        *)
(*                        12  def fact(n):                                 *)
(*                        13      return fact(n - 1)                       *)
(*                        15  class Child(Helper):                         *)
(*                        16      def __init__(self):                      *)
(*                        17          super().__init__()                   *)
(*                                                                         *)
(*   /p/utils.py  (first content)         (second content)                 *)
(*                 1  class Helper:        1  def helper2(x):              *)
(*                 2      def transform(self):     return x                *)
(*                 3          return 1      4  def filter(x):               *)
(*                 5  def helper(x):               return x                *)
(*                 6      return x                                         *)
(*                                                                         *)
(*   /p/build/gen.py       1  def gen_tool():                              *)
(*                         2      return 0                                 *)
(*                                                                         *)
(* build/ is one of the directories the directory walk prunes, so gen.py   *)
(* is reached only through get_file_symbols.                               *)
(***************************************************************************)
EXTENDS Naturals, Sequences, FiniteSets, TLC

\* ------------------------------------------------------------- bounds
\* Modification times a file can take.
MaxMtime == 2

\* batch_size of build_index (100 at parser.py:610), scaled down to the
\* size of the model's files so that both the flush inside the loop and the
\* flush after it happen.
BatchSize == 4

\* ------------------------------------------------------------- the project on disk
NONE == "<None>"

ROOT == "/p"
F_MAIN == "/p/main.py"
F_UTILS == "/p/utils.py"
F_GEN == "/p/build/gen.py"
Files == {F_MAIN, F_UTILS, F_GEN}

\* Another spelling of /p/utils.py that a caller can pass, and the paths a
\* caller passes.
F_UTILS_DOT == "/p/./utils.py"
Paths == Files \cup {F_UTILS_DOT}

\* str(Path(file_path)): pathlib drops the "." components of a path.
PathStr(file_path) == IF file_path = F_UTILS_DOT THEN F_UTILS ELSE file_path

\* The text a file can hold.
SRC_MAIN == "main#1"
SRC_UTILS1 == "utils#1"
SRC_UTILS2 == "utils#2"
SRC_GEN == "gen#1"
Contents(f) ==
    IF f = F_MAIN THEN {SRC_MAIN}
    ELSE IF f = F_UTILS THEN {SRC_UTILS1, SRC_UTILS2}
    ELSE {SRC_GEN}

\* The import map of a file: local name -> dotted path, the dotted path kept
\* as the list of its segments (import_path.split(".")).
ImportsOf(source) ==
    IF source = SRC_MAIN
    THEN [n \in {"helper", "Helper", "filter"} |-> <<"utils", n>>]
    ELSE <<>>

Symbol(name, node_type, start_line, content, host_class, callees, base_classes, calls_super) ==
    [name |-> name, node_type |-> node_type, start_line |-> start_line,
     content |-> content, host_class |-> host_class, callees |-> callees,
     base_classes |-> base_classes, calls_super |-> calls_super]

\* What find_classes yields on the parse of `source`, in document order
\* (file_path and imports are added by FindClasses).
ClassesOf(source) ==
    IF source = SRC_MAIN THEN
        << Symbol("Main", "class", 3, "class Main", NONE, <<"transform">>, <<>>, FALSE),
           Symbol("Child", "class", 15, "class Child", NONE, <<"Helper">>, <<"Helper">>, FALSE) >>
    ELSE IF source = SRC_UTILS1 THEN
        << Symbol("Helper", "class", 1, "class Helper", NONE, <<>>, <<>>, FALSE) >>
    ELSE <<>>

\* What find_functions yields on the parse of `source`, in document order.
FunctionsOf(source) ==
    IF source = SRC_MAIN THEN
        << Symbol("helper", "method", 4, "def Main.helper", "Main", <<"transform">>, <<>>, FALSE),
           Symbol("run", "function", 7, "def run", NONE, <<"Helper", "helper", "filter", "gen_tool">>, <<>>, FALSE),
           Symbol("fact", "function", 12, "def fact", NONE, <<"fact">>, <<>>, FALSE),
           Symbol("__init__", "method", 16, "def Child.__init__", "Child", <<>>, <<>>, TRUE) >>
    ELSE IF source = SRC_UTILS1 THEN
        << Symbol("transform", "method", 2, "def Helper.transform", "Helper", <<>>, <<>>, FALSE),
           Symbol("helper", "function", 5, "def helper", NONE, <<>>, <<>>, FALSE) >>
    ELSE IF source = SRC_UTILS2 THEN
        << Symbol("helper2", "function", 1, "def helper2", NONE, <<>>, <<>>, FALSE),
           Symbol("filter", "function", 4, "def filter", NONE, <<>>, <<>>, FALSE) >>
    ELSE
        << Symbol("gen_tool", "function", 1, "def gen_tool", NONE, <<>>, <<>>, FALSE) >>

\* The element of a one-element set. A result that is used more than once
\* is bound as  The({ ... r ... : r \in {call} })  so that the call is made
\* once.
The(S) == CHOOSE x \in S : TRUE

\* ------------------------------------------------------------- state
VARIABLES
    fs,            \* the files on disk: path -> [exists, mtime, content]
    file_cache,    \* table file_cache: path -> <<>> or <<[mtime, source_code]>>
    symbol_index,  \* table symbol_index: the rows, in rowid order
    indexed,       \* metadata row 'indexed': NONE (no row), "true" or "false"
    tree_cache,    \* ProjectParser._tree_cache: path -> <<>> or <<[mtime, tree]>>
    last,          \* what the last operation returned to its caller
    pc,            \* per process: where its build_index call stands
    scan,          \* per process: the locals of its build_index call
    trees          \* per process: the _tree_cache of its ProjectParser

vars == <<fs, file_cache, symbol_index, indexed, tree_cache, last, pc, scan, trees>>

\* The store and the parser's memory as one value, so that the calls of one
\* handler can be chained.
Store == [fc |-> file_cache, si |-> symbol_index, ix |-> indexed, tc |-> tree_cache]

\* ------------------------------------------------------------- cache.py: SymbolCache
\* get_file_cache: the row of `path`, <<>> when there is none. The
\* content_hash column is a digest of source_code and is read by nobody.
get_file_cache(st, path) ==
    IF path \in DOMAIN st.fc THEN st.fc[path] ELSE <<>>

set_file_cache(st, path, mtime, source_code) ==
    [st EXCEPT !.fc[path] = << [mtime |-> mtime, source_code |-> source_code] >>]

is_file_cache_valid(st, path, current_mtime) ==
    LET cache == get_file_cache(st, path)
    IN  IF cache = <<>> THEN FALSE ELSE cache[1].mtime = current_mtime

remove_file_cache(st, path) ==
    IF path \in Files THEN [st EXCEPT !.fc[path] = <<>>] ELSE st

\* UNIQUE(name, file_path, start_line, node_type) of table symbol_index.
UniqueKey(row) == <<row.name, row.file_path, row.start_line, row.node_type>>

\* A plain INSERT into a table without the UNIQUE constraint. C18 does not
\* hold of it.
InsertOrReplace_Append(rows, row) == rows \o <<row>>

\* INSERT OR REPLACE of one row: a row with the same unique key is deleted
\* and the new row gets a fresh (largest) rowid.
InsertOrReplace(rows, row) ==
    SelectSeq(rows, LAMBDA r: UniqueKey(r) # UniqueKey(row)) \o <<row>>

\* add_symbol: one INSERT OR REPLACE, one commit.
add_symbol(st, symbol_data) ==
    [st EXCEPT !.si = InsertOrReplace(@, symbol_data)]

RECURSIVE InsertAll(_, _)
InsertAll(rows, symbols) ==
    IF symbols = <<>> THEN rows
    ELSE InsertAll(InsertOrReplace(rows, Head(symbols)), Tail(symbols))

\* add_symbols_batch: one executemany, one commit.
add_symbols_batch(st, symbols) ==
    IF symbols = <<>> THEN st
    ELSE [st EXCEPT !.si = InsertAll(st.si, symbols)]

\* `file_hint in file_path`, for the hints and paths of the model.
Contains(file_path, hint) ==
    \/ hint = file_path
    \/ hint = "utils" /\ file_path \in {F_UTILS, F_UTILS_DOT}
    \/ hint = "main" /\ file_path = F_MAIN
    \/ hint = "gen" /\ file_path = F_GEN
    \/ hint = ".py" /\ file_path \in Paths

TypeMatches(row, symbol_type) ==
    IF symbol_type = NONE THEN TRUE
    ELSE IF symbol_type = "function" THEN row.node_type \in {"function", "method"}
    ELSE row.node_type = symbol_type

\* find_symbols_by_name: the rows of that name (and kind); with a file hint
\* the stable sort puts the rows whose path contains the hint first.
find_symbols_by_name(st, name, symbol_type, file_hint) ==
    LET results == SelectSeq(st.si, LAMBDA r: r.name = name /\ TypeMatches(r, symbol_type))
    IN  IF file_hint # NONE /\ results # <<>>
        THEN SelectSeq(results, LAMBDA r: Contains(r.file_path, file_hint))
             \o SelectSeq(results, LAMBDA r: ~Contains(r.file_path, file_hint))
        ELSE results

find_symbols_by_file(st, file_path) ==
    SelectSeq(st.si, LAMBDA r: r.file_path = file_path)

get_all_symbols(st, symbol_type) ==
    SelectSeq(st.si, LAMBDA r: TypeMatches(r, symbol_type))

remove_symbols_by_file(st, file_path) ==
    [st EXCEPT !.si = SelectSeq(st.si, LAMBDA r: r.file_path # file_path)]

is_indexed(st) == st.ix = "true"

set_indexed(st, value) ==
    [st EXCEPT !.ix = IF value THEN "true" ELSE "false"]

\* clear_all: the three tables emptied in one transaction.
clear_all(st) ==
    [st EXCEPT !.fc = [f \in Files |-> <<>>], !.si = <<>>, !.ix = NONE]

\* A clear_symbols that deletes the rows of symbol_index only. C10 does not
\* hold of it.
clear_symbols_KeepFlag(st) ==
    [st EXCEPT !.si = <<>>]

\* A clear_symbols that deletes the 'indexed' row and leaves the rows of
\* symbol_index in place. C29 does not hold of it.
clear_symbols_KeepRows(st) ==
    [st EXCEPT !.ix = NONE]

\* clear_symbols: symbol_index emptied and the 'indexed' row deleted, in
\* one transaction; file_cache is left as it is.
clear_symbols(st) ==
    [st EXCEPT !.si = <<>>, !.ix = NONE]

\* ------------------------------------------------------------- parser.py: PythonParser
\* parser.parse(source_bytes): the tree of that text.
Parse(source) == [of |-> source]

\* get_node_text slices source_bytes at the offsets of the tree's nodes: it
\* is the definition's text only when the bytes are the ones the tree was
\* parsed from.
NodeText(tree, source_bytes, text) ==
    IF tree.of = source_bytes THEN text ELSE "<garbled>"

ParsedSymbol(tree, source_bytes, file_path, s) ==
    [name |-> NodeText(tree, source_bytes, s.name),
     node_type |-> s.node_type,
     start_line |-> s.start_line,
     content |-> NodeText(tree, source_bytes, s.content),
     file_path |-> file_path,
     host_class |-> s.host_class,
     callees |-> s.callees,
     imports |-> ImportsOf(tree.of),
     base_classes |-> s.base_classes,
     calls_super |-> s.calls_super]

find_classes(tree, source_bytes, file_path) ==
    [i \in 1..Len(ClassesOf(tree.of)) |->
        ParsedSymbol(tree, source_bytes, file_path, ClassesOf(tree.of)[i])]

find_functions(tree, source_bytes, file_path) ==
    [i \in 1..Len(FunctionsOf(tree.of)) |->
        ParsedSymbol(tree, source_bytes, file_path, FunctionsOf(tree.of)[i])]

\* ------------------------------------------------------------- parser.py: ProjectParser
Exists(path) == path \in DOMAIN fs /\ fs[path].exists

\* The directories of a path below the project root.
DirsOf(path) == IF path = F_GEN THEN {"build"} ELSE {}

PrunedDirs ==
    {"__pycache__", ".git", ".venv", "venv", "node_modules", ".tox", "build", "dist", ".eggs"}

\* _get_python_files: the files os.walk reaches, no pruned directory on
\* the way. os.walk lists a directory in no particular order.
PythonFiles == {f \in Files : Exists(f) /\ DirsOf(f) \cap PrunedDirs = {}}

\* _parse_file_cached: [ok, tree, source_bytes, st].
NoParse(st) == [ok |-> FALSE, tree |-> Parse(NONE), source_bytes |-> NONE, st |-> st]

parse_file_cached(st, file_path) ==
    IF ~Exists(file_path) THEN NoParse(st)
    ELSE
    LET mtime == fs[file_path].mtime
        cached == st.tc[file_path]
        cache_data == get_file_cache(st, file_path)
    IN  IF cached # <<>> /\ cached[1].mtime = mtime /\ cache_data # <<>>
        THEN \* the tree kept in memory, the text of the file_cache row
             [ok |-> TRUE, tree |-> cached[1].tree,
              source_bytes |-> cache_data[1].source_code, st |-> st]
        ELSE IF is_file_cache_valid(st, file_path, mtime)
        THEN \* the text of the file_cache row, parsed again
             LET source_bytes == cache_data[1].source_code
                 tree == Parse(source_bytes)
             IN  [ok |-> TRUE, tree |-> tree, source_bytes |-> source_bytes,
                  st |-> [st EXCEPT !.tc[file_path] = << [mtime |-> mtime, tree |-> tree] >>]]
        ELSE \* the file is read and parsed, both caches are written
             LET source_code == fs[file_path].content
                 tree == Parse(source_code)
                 st1 == set_file_cache(st, file_path, mtime, source_code)
             IN  [ok |-> TRUE, tree |-> tree, source_bytes |-> source_code,
                  st |-> [st1 EXCEPT !.tc[file_path] = << [mtime |-> mtime, tree |-> tree] >>]]

\* get_file_symbols: [classes, functions, st]. The existence test, the
\* file-cache test, the fast path's lookup and the parse use str(path); the
\* extracted symbols and remove_symbols_by_file use file_path as it was
\* passed.
get_file_symbols(st, file_path) ==
    LET path == PathStr(file_path) IN
    IF ~Exists(path)
    THEN [classes |-> <<>>, functions |-> <<>>, st |-> st]
    ELSE
    LET mtime == fs[path].mtime
    IN  IF is_file_cache_valid(st, path, mtime)
        THEN LET symbols == find_symbols_by_file(st, path)
             IN  [classes |-> SelectSeq(symbols, LAMBDA s: s.node_type = "class"),
                  functions |-> SelectSeq(symbols, LAMBDA s: s.node_type \in {"function", "method"}),
                  st |-> st]
        ELSE The({
                 IF ~result.ok
                 THEN [classes |-> <<>>, functions |-> <<>>, st |-> result.st]
                 ELSE The({
                          [classes |-> classes, functions |-> functions,
                           st |-> add_symbols_batch(remove_symbols_by_file(result.st, file_path),
                                                    classes \o functions)]
                          : classes \in {find_classes(result.tree, result.source_bytes, file_path)},
                            functions \in {find_functions(result.tree, result.source_bytes,
                                                          file_path)} })
                 : result \in {parse_file_cached(st, path)} })

\* An invalidation that empties the whole store, flag included. C28 does
\* not hold of it.
invalidate_file_Everything(st, file_path) ==
    [clear_all(st) EXCEPT !.tc = [f \in DOMAIN st.tc |-> <<>>]]

\* invalidate_file: every key is file_path as it was passed.
invalidate_file(st, file_path) ==
    LET st1 == remove_symbols_by_file(remove_file_cache(st, file_path), file_path)
    IN  IF file_path \in Files THEN [st1 EXCEPT !.tc[file_path] = <<>>] ELSE st1

\* clear_cache
clear_cache(st) ==
    [clear_all(st) EXCEPT !.tc = [f \in Files |-> <<>>]]

\* build_index, from the clear on. A scan is [files, batch, st]: the files
\* still to visit, the rows not yet written, the store.
\* One turn of the loop up to the threshold test: the file is parsed and
\* its classes, then its functions, are appended to the batch.
ScanParse(sc) ==
    LET file_path == Head(sc.files)
    IN  The({
            IF ~result.ok
            THEN [files |-> Tail(sc.files), batch |-> sc.batch, st |-> result.st]
            ELSE [files |-> Tail(sc.files),
                  batch |-> sc.batch
                            \o find_classes(result.tree, result.source_bytes, file_path)
                            \o find_functions(result.tree, result.source_bytes, file_path),
                  st |-> result.st]
            : result \in {parse_file_cached(sc.st, file_path)} })

\* A threshold test that writes batch_size rows at a time and keeps the
\* rest for the next transaction. C9 does not hold of it.
ScanFlush_Chunked(sc) ==
    IF Len(sc.batch) >= BatchSize
    THEN [sc EXCEPT !.batch = SubSeq(sc.batch, BatchSize + 1, Len(sc.batch)),
                    !.st = add_symbols_batch(sc.st, SubSeq(sc.batch, 1, BatchSize))]
    ELSE sc

\* The threshold test that ends a turn of the loop.
ScanFlush(sc) ==
    IF Len(sc.batch) >= BatchSize
    THEN [sc EXCEPT !.batch = <<>>, !.st = add_symbols_batch(sc.st, sc.batch)]
    ELSE sc

\* The flush after the loop.
ScanFinalFlush(sc) ==
    IF sc.batch # <<>>
    THEN [sc EXCEPT !.batch = <<>>, !.st = add_symbols_batch(sc.st, sc.batch)]
    ELSE sc

RECURSIVE ScanLoop(_)
ScanLoop(sc) ==
    IF sc.files = <<>> THEN sc ELSE ScanLoop(ScanFlush(ScanParse(sc)))

\* build_index(force) with the walk listing the files in `order`.
build_index(st, force, order) ==
    IF ~force /\ is_indexed(st) THEN st
    ELSE set_indexed(ScanFinalFlush(ScanLoop(
                         [files |-> order, batch |-> <<>>, st |-> clear_symbols(st)])).st,
                     TRUE)

\* The orders in which the walk can list the files it finds.
Orders(S) ==
    {o \in [1..Cardinality(S) -> S] : \A i, j \in 1..Cardinality(S) : i # j => o[i] # o[j]}

\* find_symbol: [symbol, st], symbol <<>> when nothing is found.
find_symbol(st, name, symbol_type, file_hint, order) ==
    The({ The({ [symbol |-> IF results = <<>> THEN <<>> ELSE <<results[1]>>, st |-> st1]
                : results \in {find_symbols_by_name(st1, name, symbol_type, file_hint)} })
          : st1 \in {build_index(st, FALSE, order)} })

\* find_all_symbols: [symbols, st].
find_all_symbols(st, name, order) ==
    The({ [symbols |-> find_symbols_by_name(st1, name, NONE, NONE), st |-> st1]
          : st1 \in {build_index(st, FALSE, order)} })

\* ------------------------------------------------------------- resolver.py: DependencyResolver
\* Path(current_file).parent and Path.parent, for the directories of the model.
DirOf(path) == IF path = F_GEN THEN "/p/build" ELSE IF path \in Paths THEN ROOT ELSE "/"
ParentDir(dir) == IF dir = "/p/build" THEN ROOT ELSE "/"

RECURSIVE JoinSegs(_)
\* "/".join(parts)
JoinSegs(parts) ==
    IF parts = <<>> THEN ""
    ELSE IF Len(parts) = 1 THEN parts[1]
    ELSE parts[1] \o "/" \o JoinSegs(Tail(parts))

\* base / "/".join(parts): a joined text that starts with "/" (the first
\* part is empty and is not the only one) replaces the base.
PathUnder(base, parts) ==
    IF parts = <<>> \/ parts = <<"">> THEN base
    ELSE IF parts[1] = "" THEN JoinSegs(parts)
    ELSE IF base = "/" THEN "/" \o JoinSegs(parts)
    ELSE base \o "/" \o JoinSegs(parts)

RECURSIVE LeadingEmpty(_)
\* The number of leading dots of a dotted path given by its segments.
LeadingEmpty(parts) ==
    IF parts = <<>> \/ parts[1] # "" THEN 0 ELSE 1 + LeadingEmpty(Tail(parts))

Level(parts) ==
    IF \A i \in 1..Len(parts) : parts[i] = "" THEN Len(parts) - 1 ELSE LeadingEmpty(parts)

RECURSIVE Up(_, _)
Up(dir, n) == IF n = 0 THEN dir ELSE Up(ParentDir(dir), n - 1)

\* What the caller sees when Path.with_suffix raises: the path "/" has an
\* empty name.
ValueError == "<ValueError>"

RECURSIVE LongestPrefix(_, _)
\* The absolute form: for i from len(parts) down to 1, the first of
\* root/parts[:i].py and root/parts[:i]/__init__.py that exists.
LongestPrefix(parts, i) ==
    IF i = 0 THEN NONE
    ELSE LET potential_path == PathUnder(ROOT, SubSeq(parts, 1, i))
         IN  IF potential_path = "/" THEN ValueError
             ELSE IF Exists(potential_path \o ".py") THEN potential_path \o ".py"
             ELSE IF Exists(potential_path \o "/__init__.py")
             THEN potential_path \o "/__init__.py"
             ELSE LongestPrefix(parts, i - 1)

\* _resolve_import_path: the file of a dotted path, NONE when there is none,
\* ValueError when the call raises. A relative path whose candidate does not
\* exist falls through to the absolute form.
resolve_import_path(import_path, current_file) ==
    LET level == Level(import_path)
        remaining == SubSeq(import_path, level + 1, Len(import_path))
        base_dir == Up(DirOf(current_file), level - 1)
        potential_path == IF remaining # <<>> THEN PathUnder(base_dir, remaining) ELSE base_dir
    IN  IF import_path # <<>> /\ import_path[1] = "" /\ Exists(potential_path \o ".py")
        THEN potential_path \o ".py"
        ELSE IF import_path # <<>> /\ import_path[1] = ""
                /\ Exists(potential_path \o "/__init__.py")
        THEN potential_path \o "/__init__.py"
        ELSE LongestPrefix(import_path, Len(import_path))

\* The dotted path as text, for qualified_name.
RECURSIVE Dotted(_)
Dotted(parts) ==
    IF parts = <<>> THEN ""
    ELSE IF Len(parts) = 1 THEN parts[1]
    ELSE parts[1] \o "." \o Dotted(Tail(parts))

\* _find_symbol_in_file: [symbol, st]; the classes are searched first, then
\* the functions.
find_symbol_in_file(st, symbol_name, file_path) ==
    The({ The({ [symbol |-> IF cls # <<>> THEN <<cls[1]>>
                            ELSE IF fns # <<>> THEN <<fns[1]>> ELSE <<>>,
                 st |-> r.st]
                : cls \in {SelectSeq(r.classes, LAMBDA c: c.name = symbol_name)},
                  fns \in {SelectSeq(r.functions, LAMBDA f: f.name = symbol_name)} })
          : r \in {get_file_symbols(st, file_path)} })

Dependency(name, qualified_name, file_path, found_symbol) ==
    [name |-> name, qualified_name |-> qualified_name, file_path |-> file_path,
     content |-> found_symbol.content, is_class |-> found_symbol.node_type = "class",
     host_class |-> found_symbol.host_class]

\* The third strategy: the definitions the semantic analyser returned
\* (jedi_results, at most one), looked up in their files.
ByJedi(st, jedi_results) ==
    IF jedi_results # <<>> /\ Exists(jedi_results[1].module_path)
    THEN The({
             [dep |-> IF r.symbol = <<>> THEN <<>>
                      ELSE << Dependency(jedi_results[1].name, NONE,
                                         jedi_results[1].module_path, r.symbol[1]) >>,
              via |-> IF r.symbol = <<>> THEN "none" ELSE "jedi", st |-> r.st]
             : r \in {find_symbol_in_file(st, jedi_results[1].name,
                                          jedi_results[1].module_path)} })
    ELSE [dep |-> <<>>, via |-> "none", st |-> st]

\* The second strategy, then the third.
ByGlobal(st, callee_name, jedi_results, order) ==
    The({
        IF g.symbol # <<>>
        THEN [dep |-> << Dependency(callee_name, NONE, g.symbol[1].file_path, g.symbol[1]) >>,
              via |-> "global", st |-> g.st]
        ELSE ByJedi(g.st, jedi_results)
        : g \in {find_symbol(st, callee_name, NONE, NONE, order)} })

\* A resolver without the first strategy: the callee is looked up by name in
\* the whole project at once. C5 does not hold of it.
resolve_single_dependency_NoImport(st, callee_name, context_symbol, jedi_results, order) ==
    The({ [dep |-> n.dep, via |-> n.via, seen |-> st.si, st |-> n.st]
          : n \in {ByGlobal(st, callee_name, jedi_results, order)} })

\* _resolve_single_dependency: [dep, via, seen, st]. dep is <<>> or
\* <<Dependency>>; via names the strategy that produced it and seen is the
\* symbol index as it was when the first strategy was over (both are kept
\* for the properties only).
resolve_single_dependency(st, callee_name, context_symbol, jedi_results, order) ==
    LET imported == callee_name \in DOMAIN context_symbol.imports
        import_path == IF imported THEN context_symbol.imports[callee_name] ELSE <<>>
        file_path == IF imported
                     THEN resolve_import_path(import_path, context_symbol.file_path)
                     ELSE NONE
    IN  The({
            IF r.symbol # <<>>
            THEN [dep |-> << Dependency(callee_name, Dotted(import_path), file_path,
                                        r.symbol[1]) >>,
                  via |-> "import", seen |-> r.st.si, st |-> r.st]
            ELSE The({ [dep |-> n.dep, via |-> n.via, seen |-> r.st.si, st |-> n.st]
                       : n \in {ByGlobal(r.st, callee_name, jedi_results, order)} })
            : r \in {IF file_path # NONE
                     THEN find_symbol_in_file(st, callee_name, file_path)
                     ELSE [symbol |-> <<>>, st |-> st]} })

\* The names resolve_dependencies never resolves.
BuiltinSkip ==
    {"str", "int", "float", "bool", "list", "dict", "set", "tuple", "None", "True",
     "False", "print", "len", "range", "enumerate", "zip", "map", "filter", "super",
     "type", "isinstance", "hasattr", "getattr", "setattr", "Exception", "ValueError",
     "TypeError", "KeyError", "IndexError", "AttributeError", "RuntimeError"}

\* A resolver that skips no name. C13 does not hold of it.
Skipped_Never(callee_name) == FALSE

\* The test that makes resolve_dependencies pass over a callee.
Skipped(callee_name) == callee_name \in BuiltinSkip

\* _use_jedi_to_resolve: what the semantic analyser did is
\* [raises, definitions]; an exception it raises is swallowed and the
\* results gathered so far are returned.
use_jedi_to_resolve(outcome) == outcome.definitions

RECURSIVE ResolveFrom_StopAtFailure(_, _, _, _, _, _)
\* A resolve_dependencies that gives up at the first callee it cannot
\* resolve. C16 does not hold of it.
ResolveFrom_StopAtFailure(acc, symbol, i, jedi, order, n) ==
    IF i > n THEN acc
    ELSE LET callee_name == symbol.callees[i]
         IN  IF callee_name \in acc.seen_symbols \/ Skipped(callee_name)
             THEN ResolveFrom_StopAtFailure(
                      [acc EXCEPT !.seen_symbols = @ \cup {callee_name}],
                      symbol, i + 1, jedi, order, n)
             ELSE The({
                      IF r.dep = <<>>
                      THEN [acc EXCEPT !.st = r.st]
                      ELSE ResolveFrom_StopAtFailure(
                               [dependencies |-> acc.dependencies \o r.dep,
                                seen_symbols |-> acc.seen_symbols \cup {callee_name},
                                trace |-> Append(acc.trace,
                                                 [callee |-> callee_name, dep |-> r.dep,
                                                  via |-> r.via, seen |-> r.seen,
                                                  raised |-> FALSE]),
                                st |-> r.st],
                               symbol, i + 1, jedi, order, n)
                      : r \in {resolve_single_dependency(
                                   acc.st, callee_name, symbol,
                                   use_jedi_to_resolve(jedi[callee_name]), order)} })

RECURSIVE ResolveFrom(_, _, _, _, _, _)
\* The loop of resolve_dependencies from callee i on. acc is
\* [dependencies, seen_symbols, trace, st]; trace has one entry per callee
\* that was handed to _resolve_single_dependency.
ResolveFrom(acc, symbol, i, jedi, order, n) ==
    IF i > n THEN acc
    ELSE LET callee_name == symbol.callees[i]
         IN  IF callee_name \in acc.seen_symbols
             THEN ResolveFrom(acc, symbol, i + 1, jedi, order, n)
             ELSE IF Skipped(callee_name)
             THEN ResolveFrom([acc EXCEPT !.seen_symbols = @ \cup {callee_name}],
                              symbol, i + 1, jedi, order, n)
             ELSE ResolveFrom(
                      The({
                          [dependencies |-> IF r.dep # <<>> /\ r.dep[1].file_path # NONE
                                            THEN acc.dependencies \o r.dep
                                            ELSE acc.dependencies,
                           seen_symbols |-> acc.seen_symbols \cup {callee_name},
                           trace |-> Append(acc.trace,
                                            [callee |-> callee_name, dep |-> r.dep,
                                             via |-> r.via, seen |-> r.seen,
                                             raised |-> jedi[callee_name].raises
                                                        /\ r.via \notin {"import", "global"}]),
                           st |-> r.st]
                          : r \in {resolve_single_dependency(
                                       acc.st, callee_name, symbol,
                                       use_jedi_to_resolve(jedi[callee_name]), order)} }),
                      symbol, i + 1, jedi, order, n)

\* resolve_dependencies: [dependencies, seen_symbols, trace, st].
resolve_dependencies(st, symbol, jedi, order) ==
    ResolveFrom([dependencies |-> <<>>, seen_symbols |-> {}, trace |-> <<>>, st |-> st],
                symbol, 1, jedi, order, Len(symbol.callees))

\* A loop body without the promotion: every dependency contributes its own
\* content. C4 does not hold of it.
BundleStep_NoPromotion(acc, dep) ==
    IF dep.content = NONE \/ dep.content = ""
    THEN acc
    ELSE LET seen_path == \E j \in 1..Len(acc.depends_path) :
                              acc.depends_path[j] = dep.file_path
         IN  [depends |-> Append(acc.depends, dep.content),
              depends_path |-> IF dep.file_path # NONE /\ ~seen_path
                               THEN Append(acc.depends_path, dep.file_path)
                               ELSE acc.depends_path,
              st |-> acc.st]

\* One turn of the loop that builds depends and depends_path: acc is
\* [depends, depends_path, st]. A dependency without content is dropped; a
\* method is replaced by its host class when the class is found in its file.
BundleStep(acc, dep) ==
    IF dep.content = NONE \/ dep.content = ""
    THEN acc
    ELSE LET promote == dep.host_class # NONE /\ dep.file_path # NONE
             seen_path == \E j \in 1..Len(acc.depends_path) :
                              acc.depends_path[j] = dep.file_path
         IN  The({
                 [depends |-> Append(acc.depends,
                                     IF h.symbol # <<>> THEN h.symbol[1].content
                                     ELSE dep.content),
                  depends_path |-> IF dep.file_path # NONE /\ ~seen_path
                                   THEN Append(acc.depends_path, dep.file_path)
                                   ELSE acc.depends_path,
                  st |-> h.st]
                 : h \in {IF promote
                          THEN find_symbol_in_file(acc.st, dep.host_class, dep.file_path)
                          ELSE [symbol |-> <<>>, st |-> acc.st]} })

RECURSIVE Bundle(_, _, _)
Bundle(acc, dependencies, i) ==
    IF i > Len(dependencies) THEN acc
    ELSE Bundle(BundleStep(acc, dependencies[i]), dependencies, i + 1)

\* What analyze_class / analyze_function return once the target is known.
Analysis(op, st, symbol, jedi, order) ==
    The({ The({ [result |-> [op |-> op, found |-> TRUE, symbol |-> symbol,
                             dependencies |-> d.dependencies, trace |-> d.trace,
                             depends |-> b.depends, depends_path |-> b.depends_path],
                 st |-> b.st]
                : b \in {Bundle([depends |-> <<>>, depends_path |-> <<>>, st |-> d.st],
                                d.dependencies, 1)} })
          : d \in {resolve_dependencies(st, symbol, jedi, order)} })

NotFound(op) == [op |-> op, found |-> FALSE]

\* An analyze_class that empties the index when it does not find the class.
\* C17 does not hold of it.
ClassTarget_DropsIndex(st, class_name, file_path, order) ==
    The({ IF r.symbol # <<>> THEN r ELSE [symbol |-> <<>>, st |-> clear_symbols(r.st)]
          : r \in {find_symbol(st, class_name, "class", file_path, order)} })

\* analyze_class: the candidates of find_symbol(class_name, "class", file_hint).
ClassTarget(st, class_name, file_path, order) ==
    find_symbol(st, class_name, "class", file_path, order)

\* An analyze_function that falls back on the first function of that name
\* when the filters leave none. C14 does not hold of it.
FunctionTarget_Fallback(st, function_name, file_path, host_class, order) ==
    The({
        LET c1 == SelectSeq(all.symbols, LAMBDA c: c.node_type \in {"function", "method"})
            c2 == IF host_class # NONE
                  THEN SelectSeq(c1, LAMBDA c: c.host_class = host_class) ELSE c1
            c3 == IF file_path # NONE
                  THEN SelectSeq(c2, LAMBDA c: Contains(c.file_path, file_path)) ELSE c2
        IN  [symbol |-> IF c3 # <<>> THEN <<c3[1]>>
                        ELSE IF c1 # <<>> THEN <<c1[1]>> ELSE <<>>,
             st |-> all.st]
        : all \in {find_all_symbols(st, function_name, order)} })

\* analyze_function: the candidates of find_all_symbols filtered by kind,
\* then by host_class, then by the file hint; the first one is the target.
FunctionTarget(st, function_name, file_path, host_class, order) ==
    The({
        LET c1 == SelectSeq(all.symbols, LAMBDA c: c.node_type \in {"function", "method"})
            c2 == IF host_class # NONE
                  THEN SelectSeq(c1, LAMBDA c: c.host_class = host_class) ELSE c1
            c3 == IF file_path # NONE
                  THEN SelectSeq(c2, LAMBDA c: Contains(c.file_path, file_path)) ELSE c2
        IN  [symbol |-> IF c3 = <<>> THEN <<>> ELSE <<c3[1]>>, st |-> all.st]
        : all \in {find_all_symbols(st, function_name, order)} })

Callees(symbol) == {symbol.callees[i] : i \in 1..Len(symbol.callees)}

\* What the semantic analyser can find for gen_tool, the one name of the
\* project whose definition the walk does not reach: no definition, or one
\* definition with its module path, which may be a file that is not there.
JediDefinitions ==
    { <<>>,
      << [name |-> "gen_tool", module_path |-> F_GEN] >>,
      << [name |-> "gen_tool", module_path |-> "/p/gone.py"] >> }

\* What the semantic analyser can do when asked for a name: return its
\* definitions, or raise before it has found any.
JediOutcomes ==
    {[raises |-> FALSE, definitions |-> d] : d \in JediDefinitions}
    \cup {[raises |-> TRUE, definitions |-> <<>>]}

\* The semantic analyser on the callees of a symbol.
JediAnswers(symbol) ==
    { [c \in Callees(symbol) |->
          IF c = "gen_tool" THEN a ELSE [raises |-> FALSE, definitions |-> <<>>]]
      : a \in JediOutcomes }

\* ------------------------------------------------------------- actions
NoResult == [op |-> "none"]

\* The processes that share the store's database file, each with a
\* ProjectParser of its own.
Procs == {1, 2}

\* The locals of a build_index call that has not listed the files yet:
\* files and batch as in ScanParse; found is the listing of the walk and
\* extracted the rows the call appended for each file (both are kept for
\* the properties only).
NoScan ==
    [files |-> <<>>, batch |-> <<>>, found |-> {}, extracted |-> [f \in Files |-> <<>>]]

Init ==
    /\ fs = [f \in Files |->
               [exists |-> TRUE, mtime |-> 1,
                content |-> IF f = F_MAIN THEN SRC_MAIN
                            ELSE IF f = F_UTILS THEN SRC_UTILS1 ELSE SRC_GEN]]
    /\ file_cache = [f \in Files |-> <<>>]
    /\ symbol_index = <<>>
    /\ indexed = NONE
    /\ tree_cache = [f \in Files |-> <<>>]
    /\ last = NoResult
    /\ pc = [p \in Procs |-> "idle"]
    /\ scan = [p \in Procs |-> NoScan]
    /\ trees = [p \in Procs |-> [f \in Files |-> <<>>]]

SetStore(st) ==
    /\ file_cache' = st.fc
    /\ symbol_index' = st.si
    /\ indexed' = st.ix
    /\ tree_cache' = st.tc
    /\ UNCHANGED <<pc, scan, trees>>

\* The files the environment rewrites or deletes while the program runs.
Mutable == {F_UTILS}

\* The file is written (or created) with a new modification time.
ModifyFile(f, content, mtime) ==
    /\ content \in Contents(f)
    /\ mtime \in 1..MaxMtime
    /\ fs[f].exists => mtime # fs[f].mtime
    /\ fs' = [fs EXCEPT ![f] = [exists |-> TRUE, mtime |-> mtime, content |-> content]]
    /\ last' = NoResult
    /\ UNCHANGED <<file_cache, symbol_index, indexed, tree_cache, pc, scan, trees>>

\* The file is removed: it has no modification time and no content.
DeleteFile(f) ==
    /\ fs[f].exists
    /\ fs' = [fs EXCEPT ![f] = [exists |-> FALSE, mtime |-> 0, content |-> NONE]]
    /\ last' = NoResult
    /\ UNCHANGED <<file_cache, symbol_index, indexed, tree_cache, pc, scan, trees>>

\* The listings the walk of a build_index(force) call can produce; the
\* walk is not made when the call returns at once.
WalkOrders(force) ==
    IF ~force /\ indexed = "true" THEN {<<>>} ELSE Orders(PythonFiles)

\* ProjectParser.build_index(force), SymbolAnalyzer.rebuild_index (force).
\* again tells that the operation before this one was a build_index call
\* too (kept for the properties only).
BuildIndex(force) ==
    \E order \in WalkOrders(force) :
        /\ SetStore(build_index(Store, force, order))
        /\ last' = [op |-> "build_index", force |-> force,
                    again |-> last.op = "build_index"]
        /\ UNCHANGED fs

GetFileSymbols(f) ==
    \E r \in {get_file_symbols(Store, f)} :
        /\ SetStore(r.st)
        /\ last' = [op |-> "get_file_symbols", file_path |-> f,
                    classes |-> r.classes, functions |-> r.functions,
                    invalidated |-> last = [op |-> "invalidate_file", file_path |-> f]]
        /\ UNCHANGED fs

InvalidateFile(f) ==
    /\ SetStore(invalidate_file(Store, f))
    /\ last' = [op |-> "invalidate_file", file_path |-> f]
    /\ UNCHANGED fs

ClearSymbols ==
    /\ SetStore(clear_symbols(Store))
    /\ last' = NoResult
    /\ UNCHANGED fs

FindSymbol(name, symbol_type, file_hint) ==
    \E order \in WalkOrders(FALSE) :
        \E r \in {find_symbol(Store, name, symbol_type, file_hint, order)} :
            /\ SetStore(r.st)
            /\ last' = [op |-> "find_symbol", name |-> name, symbol |-> r.symbol]
            /\ UNCHANGED fs

\* The rest of analyze_class / analyze_function, from the target t on; q is
\* <<name, file_path, host_class>> as the caller gave them (kept for the
\* properties only).
Answer(op, q, t, order) ==
    IF t.symbol = <<>>
    THEN /\ SetStore(t.st)
         /\ last' = [query |-> q] @@ NotFound(op)
         /\ UNCHANGED fs
    ELSE \E jedi \in JediAnswers(t.symbol[1]) :
            \E a \in {Analysis(op, t.st, t.symbol[1], jedi, order)} :
                /\ SetStore(a.st)
                /\ last' = [query |-> q] @@ a.result
                /\ UNCHANGED fs

\* SymbolAnalyzer.query_class / DependencyResolver.analyze_class
QueryClass(class_name, file_path) ==
    \E order \in WalkOrders(FALSE) :
        \E t \in {ClassTarget(Store, class_name, file_path, order)} :
            Answer("query_class", <<class_name, file_path, NONE>>, t, order)

\* SymbolAnalyzer.query_function / DependencyResolver.analyze_function
QueryFunction(function_name, file_path, host_class) ==
    \E order \in WalkOrders(FALSE) :
        \E t \in {FunctionTarget(Store, function_name, file_path, host_class, order)} :
            Answer("query_function", <<function_name, file_path, host_class>>, t, order)

\* The query_function calls made: <<function_name, file_path, host_class>>.
FunctionQueries ==
    { <<"run", NONE, NONE>>, <<"fact", NONE, NONE>>, <<"helper", NONE, "Main">>,
      <<"helper", "utils", NONE>>, <<"helper", NONE, NONE>>, <<"helper", "utils", "Main">>,
      <<"__init__", NONE, "Child">>, <<"missing", NONE, NONE>> }

Next ==
    \/ \E f \in Mutable : \E c \in Contents(f) : \E m \in 1..MaxMtime : ModifyFile(f, c, m)
    \/ \E f \in Mutable : DeleteFile(f)
    \/ \E force \in BOOLEAN : BuildIndex(force)
    \/ \E f \in Files : GetFileSymbols(f)
    \/ \E f \in Files : InvalidateFile(f)
    \/ ClearSymbols
    \/ \E n \in {"helper", "helper2"} : FindSymbol(n, NONE, NONE)
    \/ \E n \in {"Main", "Child", "Helper", "missing"} : QueryClass(n, NONE)
    \/ \E q \in FunctionQueries : QueryFunction(q[1], q[2], q[3])

Spec == Init /\ [][Next]_vars

\* ------------------------------------------------------------- server.py: list_symbols
\* The attributes ProjectParser.__init__ sets on the instance.
ParserAttributes == {"project_root", "parser", "_cache", "_tree_cache"}

\* What call_tool returns when a handler raises.
ErrorPayload(e) == [error |-> e, code |-> "INTERNAL_ERROR"]

\* handle_list_symbols under call_tool: [payload, st]. With a file_path the
\* symbols of that file are listed; without one the index is built and the
\* parser's attribute _symbol_index is read, and the read of an attribute
\* the instance does not have raises AttributeError, which call_tool turns
\* into its error payload.
handle_list_symbols(st, file_path, order) ==
    IF file_path # NONE
    THEN The({ [payload |->
                   [file_path |-> file_path,
                    classes |-> [i \in 1..Len(r.classes) |->
                                    [name |-> r.classes[i].name,
                                     line |-> r.classes[i].start_line]],
                    functions |-> [i \in 1..Len(r.functions) |->
                                      [name |-> r.functions[i].name,
                                       line |-> r.functions[i].start_line,
                                       host_class |-> r.functions[i].host_class]]],
                st |-> r.st]
               : r \in {get_file_symbols(st, file_path)} })
    ELSE The({ IF "_symbol_index" \notin ParserAttributes
               THEN [payload |-> ErrorPayload("AttributeError"), st |-> st1]
               ELSE The({ [payload |->
                              [project_root |-> ROOT,
                               classes |-> [i \in 1..Len(cs) |->
                                               [name |-> cs[i].name,
                                                file_path |-> cs[i].file_path,
                                                line |-> cs[i].start_line]],
                               functions |-> [i \in 1..Len(fns) |->
                                                 [name |-> fns[i].name,
                                                  file_path |-> fns[i].file_path,
                                                  line |-> fns[i].start_line,
                                                  host_class |-> fns[i].host_class]]],
                           st |-> st1]
                          : cs \in {SelectSeq(st1.si, LAMBDA x: x.node_type = "class")},
                            fns \in {SelectSeq(st1.si, LAMBDA x: x.node_type # "class")} })
               : st1 \in {build_index(st, FALSE, order)} })

\* The tool list_symbols(project_root, file_path), file_path NONE when the
\* caller gives none.
ListSymbols(file_path) ==
    \E order \in WalkOrders(FALSE) :
        \E r \in {handle_list_symbols(Store, file_path, order)} :
            /\ SetStore(r.st)
            /\ last' = [op |-> "list_symbols", file_path |-> file_path,
                        payload |-> r.payload]
            /\ UNCHANGED fs

\* ------------------------------------------------------------- the file operations, any spelling of a path
\* get_file_symbols, invalidate_file and list_symbols called with the path
\* as the caller spells it, between rebuilds and rewrites of the file.
NextPaths ==
    \/ \E f \in Mutable : \E c \in Contents(f) : \E m \in 1..MaxMtime : ModifyFile(f, c, m)
    \/ \E force \in BOOLEAN : BuildIndex(force)
    \/ \E f \in Paths : GetFileSymbols(f)
    \/ \E f \in Paths : InvalidateFile(f)
    \/ \E f \in Paths \cup {NONE} : ListSymbols(f)

SpecPaths == Init /\ [][NextPaths]_vars

\* ------------------------------------------------------------- build_index, one store operation at a time
\* The store and the memory of process p's parser.
PStore(p) == [fc |-> file_cache, si |-> symbol_index, ix |-> indexed, tc |-> trees[p]]

SetPStore(p, st) ==
    /\ file_cache' = st.fc
    /\ symbol_index' = st.si
    /\ indexed' = st.ix
    /\ trees' = [trees EXCEPT ![p] = st.tc]

\* The places of a build_index call after its clear_symbols.
Scanning == {"walk", "parse", "test", "mark"}

\* The call starts: it returns at once when the flag is read as set and no
\* rebuild is forced, and goes on to the clear otherwise.
Check(p, force) ==
    /\ pc[p] \in {"idle", "aborted"}
    /\ IF ~force /\ is_indexed(PStore(p))
       THEN /\ pc' = [pc EXCEPT ![p] = "idle"]
            /\ UNCHANGED scan
       ELSE /\ pc' = [pc EXCEPT ![p] = "clear"]
            /\ scan' = [scan EXCEPT ![p] = NoScan]
    /\ UNCHANGED <<fs, file_cache, symbol_index, indexed, tree_cache, last, trees>>

\* clear_symbols, one transaction.
Clear(p) ==
    /\ pc[p] = "clear"
    /\ SetPStore(p, clear_symbols(PStore(p)))
    /\ pc' = [pc EXCEPT ![p] = "walk"]
    /\ UNCHANGED <<fs, tree_cache, last, scan>>

\* _get_python_files
Walk(p) ==
    /\ pc[p] = "walk"
    /\ \E order \in Orders(PythonFiles) :
          scan' = [scan EXCEPT ![p] = [NoScan EXCEPT !.files = order, !.found = PythonFiles]]
    /\ pc' = [pc EXCEPT ![p] = "parse"]
    /\ UNCHANGED <<fs, file_cache, symbol_index, indexed, tree_cache, last, trees>>

\* One file is parsed and its rows are appended to the batch.
ParseFile(p) ==
    /\ pc[p] = "parse"
    /\ scan[p].files # <<>>
    /\ \E sc \in {ScanParse([files |-> scan[p].files, batch |-> scan[p].batch,
                             st |-> PStore(p)])} :
          /\ SetPStore(p, sc.st)
          /\ scan' = [scan EXCEPT ![p].files = sc.files,
                                  ![p].batch = sc.batch,
                                  ![p].extracted[Head(scan[p].files)] =
                                      SubSeq(sc.batch, Len(scan[p].batch) + 1, Len(sc.batch))]
    /\ pc' = [pc EXCEPT ![p] = "test"]
    /\ UNCHANGED <<fs, tree_cache, last>>

\* The threshold test, with the batch written in one transaction when it
\* has grown to the batch size.
Flush(p) ==
    /\ pc[p] = "test"
    /\ \E sc \in {ScanFlush([files |-> scan[p].files, batch |-> scan[p].batch,
                             st |-> PStore(p)])} :
          /\ SetPStore(p, sc.st)
          /\ scan' = [scan EXCEPT ![p].batch = sc.batch]
    /\ pc' = [pc EXCEPT ![p] = "parse"]
    /\ UNCHANGED <<fs, tree_cache, last>>

\* The loop is over: what is left of the batch is written.
FinalFlush(p) ==
    /\ pc[p] = "parse"
    /\ scan[p].files = <<>>
    /\ \E sc \in {ScanFinalFlush([files |-> scan[p].files, batch |-> scan[p].batch,
                                  st |-> PStore(p)])} :
          /\ SetPStore(p, sc.st)
          /\ scan' = [scan EXCEPT ![p].batch = sc.batch]
    /\ pc' = [pc EXCEPT ![p] = "mark"]
    /\ UNCHANGED <<fs, tree_cache, last>>

\* set_indexed(True), the last statement of build_index.
MarkIndexed(p) ==
    /\ pc[p] = "mark"
    /\ SetPStore(p, set_indexed(PStore(p), TRUE))
    /\ pc' = [pc EXCEPT ![p] = "idle"]
    /\ UNCHANGED <<fs, tree_cache, last, scan>>

\* The call ends after its clear and before its set_indexed: a store
\* operation raised (the database stayed locked for the 10 s of the
\* connection's timeout) or the process was stopped.
Abort(p) ==
    /\ pc[p] \in Scanning
    /\ pc' = [pc EXCEPT ![p] = "aborted"]
    /\ scan' = [scan EXCEPT ![p] = NoScan]
    /\ UNCHANGED <<fs, file_cache, symbol_index, indexed, tree_cache, last, trees>>

\* The steps of a build_index call of process p.
ScanStep(p) ==
    \/ Clear(p)
    \/ Walk(p)
    \/ ParseFile(p)
    \/ Flush(p)
    \/ FinalFlush(p)
    \/ MarkIndexed(p)

\* One process builds the index, forced or not, while files are rewritten;
\* a call can abort.
NextScan1 ==
    \/ \E f \in Mutable : \E c \in Contents(f) : \E m \in 1..MaxMtime : ModifyFile(f, c, m)
    \/ \E f \in Mutable : DeleteFile(f)
    \/ \E force \in BOOLEAN : Check(1, force)
    \/ ScanStep(1)
    \/ Abort(1)

SpecScan1 == Init /\ [][NextScan1]_vars

\* Two processes answer queries on the same project: each query starts
\* with build_index(force=False).
NextScan2 ==
    \/ \E p \in Procs : Check(p, FALSE)
    \/ \E p \in Procs : ScanStep(p)

SpecScan2 == Init /\ [][NextScan2]_vars

\* ------------------------------------------------------------- a second ProjectParser on the same store
\* Path(project_root).resolve(), for the spellings of the project root a
\* caller passes.
RootSpellings == {"/p", "/p/", "/p/."}
Resolve(project_root) == IF project_root \in RootSpellings THEN ROOT ELSE project_root

\* generate_cache_filename: the name of the resolved root and the digest of
\* its path (the digest is kept as the path it was made of).
generate_cache_filename(project_root) ==
    << IF Resolve(project_root) = ROOT THEN "p" ELSE Resolve(project_root),
       Resolve(project_root) >>

\* A _init_db that creates the tables anew. C19 does not hold of it.
init_db_Recreate(st) == clear_all(st)

\* _init_db: CREATE TABLE IF NOT EXISTS leaves the tables of an existing
\* database file as they are.
init_db(st) == st

\* ProjectParser(project_root) for a project whose database file exists: a
\* SymbolCache on that file and an empty _tree_cache.
ProjectParser_init(st) ==
    [init_db(st) EXCEPT !.tc = [f \in Files |-> <<>>]]

\* A new ProjectParser instance takes the place of the one at work; the
\* project root is spelled as the caller likes. before is the find_symbol
\* result the old instance returned last, if that is what it did last
\* (kept for the properties only).
Reopen(project_root) ==
    /\ generate_cache_filename(project_root) = generate_cache_filename(ROOT)
    /\ SetStore(ProjectParser_init(Store))
    /\ last' = [op |-> "reopen",
                before |-> IF last.op = "find_symbol" THEN last ELSE NoResult]
    /\ UNCHANGED fs

NextReopen ==
    \/ \E f \in Mutable : \E c \in Contents(f) : \E m \in 1..MaxMtime : ModifyFile(f, c, m)
    \/ \E force \in BOOLEAN : BuildIndex(force)
    \/ GetFileSymbols(F_UTILS)
    \/ \E n \in {"helper", "helper2"} : FindSymbol(n, NONE, NONE)
    \/ \E r \in RootSpellings : Reopen(r)

SpecReopen == Init /\ [][NextReopen]_vars

\* ------------------------------------------------------------- clearing the cache
\* The methods class SymbolAnalyzer defines.
AnalyzerMethods == {"query_class", "query_function", "rebuild_index"}

\* analyzer.clear_cache(), as test_clear_cache calls it: the call of a method
\* the class does not define raises AttributeError and nothing is cleared.
AnalyzerClearCache ==
    /\ SetStore(IF "clear_cache" \in AnalyzerMethods THEN clear_cache(Store) ELSE Store)
    /\ last' = [op |-> "clear_cache", on |-> "SymbolAnalyzer",
                raised |-> "clear_cache" \notin AnalyzerMethods]
    /\ UNCHANGED fs

\* analyzer.resolver.project_parser.clear_cache()
ParserClearCache ==
    /\ SetStore(clear_cache(Store))
    /\ last' = [op |-> "clear_cache", on |-> "ProjectParser", raised |-> FALSE]
    /\ UNCHANGED fs

\* Queries of classes, with the cache cleared in between and utils.py
\* rewritten.
NextClear ==
    \/ \E f \in Mutable : \E c \in Contents(f) : \E m \in 1..MaxMtime : ModifyFile(f, c, m)
    \/ \E n \in {"Main", "Child", "Helper", "missing"} : QueryClass(n, NONE)
    \/ AnalyzerClearCache
    \/ ParserClearCache

SpecClear == Init /\ [][NextClear]_vars

\* ------------------------------------------------------------- the rows of symbol_index under every writer
\* The symbols a caller of add_symbol hands over: the function helper of
\* utils.py as extracted, and with another text at the same place.
AddedSymbols ==
    {[s EXCEPT !.content = c] :
        s \in {x \in {find_functions(Parse(SRC_UTILS1), SRC_UTILS1, F_UTILS)[i] :
                        i \in 1..Len(FunctionsOf(SRC_UTILS1))} : x.name = "helper"},
        c \in {"def helper", "def helper (edited)"}}

\* SymbolCache.add_symbol. replaced tells that a row with the key of the
\* symbol was there before (kept for the properties only).
AddSymbol(symbol_data) ==
    /\ SetStore(add_symbol(Store, symbol_data))
    /\ last' = [op |-> "add_symbol", symbol |-> symbol_data,
                replaced |-> \E r \in {symbol_index[i] : i \in 1..Len(symbol_index)} :
                                UniqueKey(r) = UniqueKey(symbol_data)]
    /\ UNCHANGED fs

\* Two processes build the index while a third one re-ingests and
\* invalidates utils.py and adds a symbol of it.
NextRows ==
    \/ \E p \in Procs : Check(p, FALSE)
    \/ \E p \in Procs : ScanStep(p)
    \/ GetFileSymbols(F_UTILS)
    \/ InvalidateFile(F_UTILS)
    \/ \E s \in AddedSymbols : AddSymbol(s)

SpecRows == Init /\ [][NextRows]_vars

\* ------------------------------------------------------------- properties
Range(seq) == {seq[i] : i \in 1..Len(seq)}

\* The symbols a fresh extraction of the file's present content yields.
FreshSymbols(f) ==
    IF Exists(f)
    THEN Range(find_classes(Parse(fs[f].content), fs[f].content, f))
         \cup Range(find_functions(Parse(fs[f].content), fs[f].content, f))
    ELSE {}

FreshNames(f) == {s.name : s \in FreshSymbols(f)}

\* The file was indexed and has been written since, with no invalidate and
\* no re-ingest after the write: its file-cache row still holds the old
\* modification time and the old text, and the index flag is set.
ModifiedSinceIndexed(f) ==
    /\ indexed = "true"
    /\ Exists(f)
    /\ file_cache[f] # <<>>
    /\ file_cache[f][1].mtime # fs[f].mtime
    /\ file_cache[f][1].source_code # fs[f].content

IsQuery == last.op \in {"query_class", "query_function"} /\ last.found

\* C1: a find_symbol issued after an indexed file was modified, with no
\* invalidate and no rebuild in between, returns a symbol of the new content
\* when the name is defined there, and never a symbol that exists only in
\* the old content.
C1_QueryAfterModifyIsFresh ==
    (last.op = "find_symbol" /\ ModifiedSinceIndexed(F_UTILS)) =>
        /\ last.name \in FreshNames(F_UTILS) => last.symbol # <<>>
        /\ last.symbol # <<>> => last.symbol[1] \in FreshSymbols(last.symbol[1].file_path)

\* C2: whenever the file-cache row of an existing file f carries f's present
\* modification time (and text), the symbol rows stored for f are exactly
\* the symbols extracted from f.
C2_ValidCacheMeansIndexed ==
    \A f \in Files :
        (/\ Exists(f)
         /\ file_cache[f] = << [mtime |-> fs[f].mtime, source_code |-> fs[f].content] >>)
        => Range(find_symbols_by_file(Store, f)) = FreshSymbols(f)

\* C3: in every result of query_class / query_function, depends and
\* depends_path have the same length.
C3_DependsMatchesPaths ==
    IsQuery => Len(last.depends) = Len(last.depends_path)

\* The classes named `name` that get_file_symbols finds in the file.
ClassesNamed(name, file_path) ==
    SelectSeq(get_file_symbols(Store, file_path).classes, LAMBDA c: c.name = name)

\* C4: a dependency that is a method (host_class set) contributes to depends
\* the content of the class named host_class in its file; the method's own
\* content stands there only when the file holds no class of that name.
C4_MethodPromotedToClass ==
    IsQuery =>
        /\ Len(last.depends) = Len(last.dependencies)
        /\ \A i \in 1..Len(last.dependencies) :
              LET dep == last.dependencies[i]
                  cls == ClassesNamed(dep.host_class, dep.file_path)
              IN  IF dep.host_class = NONE THEN last.depends[i] = dep.content
                  ELSE /\ cls # <<>> => last.depends[i] = cls[1].content
                       /\ last.depends[i] = dep.content => cls = <<>>

\* C4 witness: a query whose dependency is a method and whose depends entry
\* is the host class, not the method.
C4_Witness ==
    /\ IsQuery
    /\ \E i \in 1..Len(last.dependencies) :
          /\ last.dependencies[i].host_class # NONE
          /\ last.depends[i] # last.dependencies[i].content

\* The import-directed lookup of callee c for symbol s, made again on the
\* present state: <<>> or <<[file_path, symbol]>>.
ImportLookup(s, c) ==
    IF c \notin DOMAIN s.imports THEN <<>>
    ELSE LET fp == resolve_import_path(s.imports[c], s.file_path)
             cs == IF fp = NONE THEN <<>> ELSE get_file_symbols(Store, fp).classes
             fu == IF fp = NONE THEN <<>> ELSE get_file_symbols(Store, fp).functions
             hit == SelectSeq(cs, LAMBDA x: x.name = c) \o SelectSeq(fu, LAMBDA x: x.name = c)
         IN  IF hit = <<>> THEN <<>> ELSE << [file_path |-> fp, symbol |-> hit[1]] >>

\* The rows named c in an earlier symbol index.
GlobalLookup(rows, c) == SelectSeq(rows, LAMBDA r: r.name = c)

\* C5: for every callee handed to the resolver, the import-directed lookup
\* wins whenever it finds a symbol; the global lookup is used only when the
\* import-directed lookup found nothing, and the semantic fallback only when
\* both found nothing.
C5_StrategyOrder ==
    IsQuery =>
        \A i \in 1..Len(last.trace) :
            LET t == last.trace[i]
                imp == ImportLookup(last.symbol, t.callee)
                glob == GlobalLookup(t.seen, t.callee)
            IN  /\ imp # <<>> =>
                      /\ t.via = "import"
                      /\ t.dep[1].file_path = imp[1].file_path
                      /\ t.dep[1].content = imp[1].symbol.content
                /\ (imp = <<>> /\ glob # <<>>) =>
                      /\ t.via = "global"
                      /\ t.dep[1].file_path = glob[1].file_path
                      /\ t.dep[1].content = glob[1].content
                /\ t.via = "jedi" => (imp = <<>> /\ glob = <<>>)
                /\ t.via = "none" => (imp = <<>> /\ glob = <<>> /\ t.dep = <<>>)

\* C5 witness: one query in which a callee is resolved through its import
\* although another symbol of that name is indexed in another file, and in
\* which another callee is resolved by the semantic fallback.
C5_Witness ==
    /\ IsQuery
    /\ \E i \in 1..Len(last.trace) :
          /\ last.trace[i].via = "import"
          /\ \E r \in Range(last.trace[i].seen) :
                /\ r.name = last.trace[i].callee
                /\ r.file_path # last.trace[i].dep[1].file_path
    /\ \E i \in 1..Len(last.trace) : last.trace[i].via = "jedi"

\* The class rows of the index that are a parent of the class `name` of
\* the file.
ParentClasses(name, file_path) ==
    {p \in Range(symbol_index) :
        /\ p.node_type = "class"
        /\ \E c \in Range(symbol_index) :
              /\ c.node_type = "class" /\ c.name = name /\ c.file_path = file_path
              /\ p.name \in Range(c.base_classes)}

\* C6: query_function on a method whose body calls super() returns the
\* source of the parent class in depends and its file in depends_path.
C6_SuperResolvesParent ==
    (/\ last.op = "query_function" /\ last.found
     /\ last.symbol.calls_super /\ last.symbol.host_class # NONE) =>
        \A p \in ParentClasses(last.symbol.host_class, last.symbol.file_path) :
            /\ p.content \in Range(last.depends)
            /\ p.file_path \in Range(last.depends_path)

\* C7: no entry of depends is the queried symbol's own content.
C7_NoSelfDependency ==
    IsQuery => \A i \in 1..Len(last.depends) : last.depends[i] # last.symbol.content

\* C8: when two queries run build_index on the same store, at most one of
\* them is past its clear_symbols and at work on the scan.
C8_AtMostOneScans ==
    \A p, q \in Procs : (pc[p] \in Scanning /\ pc[q] \in Scanning) => p = q

\* The rows the store holds for file f.
RowsOf(f) == {r \in Range(symbol_index) : r.file_path = f}

\* C9: after every store operation of one build_index call, from its clear
\* to its set_indexed, the store holds for each file either no row or
\* exactly the rows the call extracted from it.
C9_FileRowsAllOrNone ==
    pc[1] \in Scanning =>
        \A f \in Files : RowsOf(f) = {} \/ RowsOf(f) = Range(scan[1].extracted[f])

\* C9 witness: the threshold flush has written a whole file's rows while
\* another file is still to be visited.
C9_Witness ==
    /\ pc[1] = "parse"
    /\ scan[1].files # <<>>
    /\ scan[1].batch = <<>>
    /\ \E f \in Files : RowsOf(f) # {} /\ RowsOf(f) = Range(scan[1].extracted[f])

\* C10: with one writer, the flag is not "true" from the clear to the end
\* of the call, the final flush included; a call that aborted leaves it not
\* "true"; and whenever the flag is "true" nothing is left in the batch and
\* the store holds the rows of every file the last listing found.
C10_IndexedOnlyAfterFlush ==
    /\ pc[1] \in Scanning => indexed # "true"
    /\ pc[1] = "aborted" => indexed # "true"
    /\ indexed = "true" =>
          /\ scan[1].files = <<>>
          /\ scan[1].batch = <<>>
          /\ \A f \in scan[1].found : RowsOf(f) = Range(scan[1].extracted[f])

\* C10 witness: a scan that found files has written its final batch, the
\* rows of a file of at least batch_size symbols among them, and has not set
\* the flag yet.
C10_Witness ==
    /\ pc[1] = "mark"
    /\ scan[1].found # {}
    /\ scan[1].batch = <<>>
    /\ symbol_index # <<>>
    /\ indexed = NONE
    /\ \E f \in Files : file_cache[f] # <<>> /\ Len(scan[1].extracted[f]) >= BatchSize

\* A list of symbols with every file_path in its pathlib spelling: two
\* symbols that differ only in how their file is spelled count as the same.
Spelled(seq) == [i \in 1..Len(seq) |-> [seq[i] EXCEPT !.file_path = PathStr(@)]]

\* The classes and functions a fresh extraction of the file at file_path
\* yields.
FreshClasses(file_path) ==
    find_classes(Parse(fs[PathStr(file_path)].content), fs[PathStr(file_path)].content,
                 PathStr(file_path))

FreshFunctions(file_path) ==
    find_functions(Parse(fs[PathStr(file_path)].content), fs[PathStr(file_path)].content,
                   PathStr(file_path))

\* The rows the store holds for the file, under any spelling of its path.
RowsFor(file_path) ==
    {[r EXCEPT !.file_path = PathStr(@)] :
        r \in {x \in Range(symbol_index) : PathStr(x.file_path) = PathStr(file_path)}}

\* C11: get_file_symbols(f) made right after invalidate_file(f) on an
\* existing file returns the classes and functions of a fresh extraction of
\* f, and the store then holds exactly those rows for f (spellings of the
\* path of f are not told apart).
C11_InvalidateThenGetIsFresh ==
    (/\ last.op = "get_file_symbols"
     /\ last.invalidated
     /\ Exists(PathStr(last.file_path))) =>
        /\ Spelled(last.classes) = FreshClasses(last.file_path)
        /\ Spelled(last.functions) = FreshFunctions(last.file_path)
        /\ RowsFor(last.file_path)
              = Range(FreshClasses(last.file_path)) \cup Range(FreshFunctions(last.file_path))

\* C12: a build_index call made right after another one (no file was written
\* or deleted in between) leaves the same set of symbol rows as the first
\* did, whatever force is in either call; and build_index(force = FALSE) on
\* a store whose indexed flag is "true" changes nothing in the store and in
\* the tree cache.
C12_BuildIndexTwiceSameRows ==
    [][ /\ (last.op = "build_index" /\ last'.op = "build_index" /\ last'.again)
            => Range(symbol_index') = Range(symbol_index)
        /\ (last'.op = "build_index" /\ ~last'.force /\ indexed = "true")
            => UNCHANGED <<file_cache, symbol_index, indexed, tree_cache>> ]_vars

\* C13: no dependency of a query's result, and no call of
\* _resolve_single_dependency made for it, is for a callee whose name is in
\* the builtin-skip set, whether or not the project defines a symbol of
\* that name and whether or not the queried symbol imports the name.
C13_SkippedCalleeNeverResolved ==
    (IsQuery /\ last.found) =>
        /\ \A i \in 1..Len(last.dependencies) : last.dependencies[i].name \notin BuiltinSkip
        /\ \A i \in 1..Len(last.trace) : last.trace[i].callee \notin BuiltinSkip

\* A query of run, which calls filter and imports it from utils, answered
\* with other dependencies while the index holds the function filter of
\* utils.py.
C13_Witness ==
    /\ IsQuery /\ last.found
    /\ "filter" \in Callees(last.symbol) \cap BuiltinSkip
    /\ "filter" \in DOMAIN last.symbol.imports
    /\ \E r \in Range(symbol_index) : r.name = "filter" /\ r.file_path = F_UTILS
    /\ fs[F_UTILS].content = SRC_UTILS2
    /\ last.dependencies # <<>>

\* The row the claim designates among `rows` for the query
\* q = <<name, file_hint, host_class>>: <<>> or <<row>>.
Designated(rows, q) ==
    LET named == SelectSeq(rows, LAMBDA r: r.name = q[1]
                                           /\ r.node_type \in {"function", "method"})
        in_class == IF q[3] # NONE
                    THEN SelectSeq(named, LAMBDA r: r.host_class = q[3]) ELSE named
        in_file == IF q[2] # NONE
                   THEN SelectSeq(in_class, LAMBDA r: Contains(r.file_path, q[2]))
                   ELSE in_class
    IN  IF in_file = <<>> THEN <<>> ELSE <<in_file[1]>>

\* C14: the target of query_function(name, file_hint, host_class) is the
\* first of the function and method rows named name, in the order of the
\* index the query reads (built by the query itself when the store is not
\* indexed), that has exactly that host_class when one is given and whose
\* file_path contains file_hint when one is given; when there is no such
\* row the result is absent, whatever other rows of that name exist.
C14_TargetIsFirstFiltered ==
    [][ last'.op = "query_function" =>
            \E order \in WalkOrders(FALSE) :
                LET t == Designated(build_index(Store, FALSE, order).si, last'.query)
                IN  IF t = <<>> THEN ~last'.found
                    ELSE last'.found /\ last'.symbol = t[1] ]_vars

\* query_function("helper", "utils") answered with the function of
\* utils.py while the first row named helper is the method of main.py.
C14_Witness ==
    /\ last.op = "query_function" /\ last.found
    /\ last.query = <<"helper", "utils", NONE>>
    /\ last.symbol.file_path = F_UTILS
    /\ \E i \in 1..Len(symbol_index) :
          /\ symbol_index[i].name = "helper" /\ symbol_index[i].file_path = F_MAIN
          /\ \A j \in 1..(i - 1) : symbol_index[j].name # "helper"

\* The entries list_symbols is to return for the whole project: one per
\* row of the index.
ClassEntries ==
    {[name |-> r.name, file_path |-> r.file_path, line |-> r.start_line] :
        r \in {x \in Range(symbol_index) : x.node_type = "class"}}

FunctionEntries ==
    {[name |-> r.name, file_path |-> r.file_path, line |-> r.start_line,
      host_class |-> r.host_class] :
        r \in {x \in Range(symbol_index) : x.node_type # "class"}}

\* C15: list_symbols with a project_root and no file_path answers with the
\* classes and the functions and methods of the whole index, one entry per
\* row, and not with an error payload.
C15_ListSymbolsWholeProject ==
    (last.op = "list_symbols" /\ last.file_path = NONE) =>
        /\ "error" \notin DOMAIN last.payload
        /\ Range(last.payload.classes) = ClassEntries
        /\ Range(last.payload.functions) = FunctionEntries

\* The calls of _resolve_single_dependency of the last query that returned
\* a dependency.
Resolved == SelectSeq(last.trace, LAMBDA e: e.dep # <<>>)

Tables(st) == [file_cache |-> st.fc, rows |-> Range(st.si), indexed |-> st.ix]

\* The rows a query for q = <<name, file_hint, host_class>> can match.
Matching(rows, op, q) ==
    SelectSeq(rows, LAMBDA r: /\ r.name = q[1]
                              /\ IF op = "query_class" THEN r.node_type = "class"
                                 ELSE r.node_type \in {"function", "method"})

\* C17, as stated: a query that finds nothing leaves the tables of the
\* store as every query_function that finds its target leaves them, when
\* made in the same state.
C17_FailedLikeSuccessful ==
    [][ (last'.op \in {"query_class", "query_function"} /\ ~last'.found) =>
            \A q \in FunctionQueries : \A order \in WalkOrders(FALSE) :
                LET t == FunctionTarget(Store, q[1], q[2], q[3], order)
                IN  t.symbol # <<>> =>
                        \A jedi \in JediAnswers(t.symbol[1]) :
                            Tables(Analysis("query_function", t.st, t.symbol[1], jedi, order).st)
                                = Tables(Store') ]_vars

\* C17, amended: query_class and query_function for a name that no row of
\* the index they read carries (with the kind asked for) return the absent
\* result, and leave the store as build_index(force = FALSE) leaves it:
\* untouched when it was indexed, freshly built and flagged otherwise.
C17_AbsentLeavesIndexAsBuilt ==
    [][ last'.op \in {"query_class", "query_function"} =>
            \E order \in WalkOrders(FALSE) :
                LET st1 == build_index(Store, FALSE, order)
                IN  Matching(st1.si, last'.op, last'.query) = <<>> =>
                        /\ ~last'.found
                        /\ Store' = st1
                        /\ indexed' = "true" ]_vars

\* query_class("missing") and query_function("missing") answered with the
\* absent result on a built index.
C17_Witness ==
    /\ last.op \in {"query_class", "query_function"}
    /\ ~last.found
    /\ last.query[1] = "missing"
    /\ indexed = "true"
    /\ symbol_index # <<>>

\* The rows of symbol_index that have the unique key of `symbol`.
SameKey(rows, symbol) == SelectSeq(rows, LAMBDA r: UniqueKey(r) = UniqueKey(symbol))

\* C18: no two rows of symbol_index have the same (name, file_path,
\* start_line, node_type), whatever add_symbol, add_symbols_batch (the
\* flushes of build_index), get_file_symbols and invalidate_file did, also
\* when two processes fill the index at once; and an add_symbol leaves the
\* symbol it was given as the row of its key, with one row more than before
\* when the key was new and as many as before when it was there.
C18_UniqueKeys ==
    /\ [](\A i, j \in 1..Len(symbol_index) :
            UniqueKey(symbol_index[i]) = UniqueKey(symbol_index[j]) => i = j)
    /\ [][ (last'.op = "add_symbol" /\ UNCHANGED pc) =>
              /\ SameKey(symbol_index', last'.symbol) = <<last'.symbol>>
              /\ Len(symbol_index')
                    = IF SameKey(symbol_index, last'.symbol) = <<>>
                      THEN Len(symbol_index) + 1 ELSE Len(symbol_index) ]_vars

\* add_symbol was given the edited helper while the index held the row of
\* the extracted helper, and the index holds the edited one.
C18_Witness ==
    /\ last.op = "add_symbol" /\ last.replaced
    /\ last.symbol.content = "def helper (edited)"
    /\ \E r \in Range(symbol_index) :
          UniqueKey(r) = UniqueKey(last.symbol) /\ r.content = "def helper (edited)"
    /\ Len(symbol_index) > 1

\* C19: a second ProjectParser made for the same project root finds the
\* indexed flag, the file_cache rows and the symbol rows as the first left
\* them; its find_symbol on the indexed store rescans nothing (the tables
\* stay as they are) and returns the symbol the first instance returned for
\* that name just before.
C19_ReopenKeepsStore ==
    [][ /\ last'.op = "reopen" => UNCHANGED <<file_cache, symbol_index, indexed>>
        /\ (last.op = "reopen" /\ last'.op = "find_symbol") =>
              /\ indexed = "true" => UNCHANGED <<file_cache, symbol_index, indexed>>
              /\ (last.before.op = "find_symbol" /\ last.before.name = last'.name)
                    => last'.symbol = last.before.symbol ]_vars

\* A second instance, with no tree in memory, on the store in which the
\* first instance has just found a symbol.
C19_Witness ==
    /\ last.op = "reopen"
    /\ last.before.op = "find_symbol" /\ last.before.symbol # <<>>
    /\ indexed = "true"
    /\ symbol_index # <<>>
    /\ \A f \in Files : tree_cache[f] = <<>>
    /\ \E f \in Files : file_cache[f] # <<>>

\* Everything clear_cache is to empty is empty.
Emptied ==
    /\ symbol_index = <<>>
    /\ indexed = NONE
    /\ \A f \in Files : file_cache[f] = <<>> /\ tree_cache[f] = <<>>

\* A file the walk reaches defines a class of that name.
ClassInProject(name) ==
    \E f \in PythonFiles : \E x \in FreshSymbols(f) : x.node_type = "class" /\ x.name = name

\* query_class made right after a clear_cache that emptied the store finds
\* every class the project defines, and leaves the store indexed.
RebuiltOnDemand ==
    [][ (/\ last.op = "clear_cache" /\ ~last.raised
         /\ last'.op = "query_class" /\ ClassInProject(last'.query[1]))
            => (last'.found /\ indexed' = "true" /\ symbol_index' # <<>>) ]_vars

\* C20: clear_cache() on a SymbolAnalyzer empties the file cache, the symbol
\* index, the indexed flag and the trees in memory without raising, and
\* the query_class that follows, for a class the project defines, returns a
\* result and leaves the store indexed.
C20_ClearCacheThenQuery ==
    /\ []((last.op = "clear_cache" /\ last.on = "SymbolAnalyzer")
              => (~last.raised /\ Emptied))
    /\ [][ (/\ last.op = "clear_cache" /\ last.on = "SymbolAnalyzer"
            /\ last'.op = "query_class" /\ ClassInProject(last'.query[1]))
               => (last'.found /\ indexed' = "true") ]_vars

\* ------------------------------------------------------------- parser.py: extract_callees
\* Syntax-tree nodes as tree-sitter gives them: a type, the text of a leaf,
\* and the children.  The function of a call and the object of an attribute
\* are the first child, the attribute name is the last one.
Node(type, text, children) == [type |-> type, text |-> text, children |-> children]
Id(name) == Node("identifier", name, <<>>)
Attr(object, attribute) == Node("attribute", "", <<object, Id(attribute)>>)
Call(function, arguments) ==
    Node("call", "", <<function, Node("argument_list", "", arguments)>>)

\* The statements the bodies are made of.
Statements ==
    LET Stmt(e) == Node("expression_statement", "", <<e>>)
        Assign(l, r) == Stmt(Node("assignment", "", <<l, r>>))
        Return(e) == Node("return_statement", "", <<e>>)
    IN  { Stmt(Call(Id("helper"), <<>>)),                        \* helper()
          Stmt(Call(Attr(Call(Id("super"), <<>>), "__init__"),
                    <<Attr(Id("ddd"), "config")>>)),             \* super().__init__(ddd.config)
          Assign(Attr(Id("self"), "data"),
                 Call(Attr(Id("ddd"), "get_data"), <<>>)),       \* self.data = ddd.get_data()
          Return(Call(Id("cls"), <<>>)),                         \* return cls()
          Stmt(Call(Id("f"), <<Attr(Id("mod"), "CONFIG")>>)),    \* f(mod.CONFIG)
          Assign(Id("x"), Attr(Attr(Id("a"), "b"), "c")),        \* x = a.b.c
          Stmt(Call(Id("f"), <<Id("Helper"), Id("self")>>)),     \* f(Helper, self)
          Stmt(Call(Attr(Id("self"), "run"), <<>>)),             \* self.run()
          Stmt(Call(Attr(Attr(Attr(Id("a"), "b"), "c"), "func"), <<>>)),
                                                                 \* a.b.c.func()
          Return(Attr(Node("subscript", "", <<Id("items"), Node("integer", "0", <<>>)>>),
                      "name")),                                  \* return items[0].name
          Stmt(Call(Attr(Call(Id("f"), <<>>), "g"), <<>>)),      \* f().g()
          Stmt(Call(Attr(Id("super"), "m"), <<>>)),              \* super.m()
          Return(Attr(Id("cls"), "registry")),                   \* return cls.registry
          Node("pass_statement", "", <<>>) }                     \* pass

MaxStatements == 2

\* The definitions at module level: a def f whose body is a block of
\* statements, and a class K with that def as its only method.
Definitions ==
    LET Def(body) == Node("function_definition", "", <<Id("f"), Node("block", "", body)>>)
        Bodies == UNION { [1..n -> Statements] : n \in 1..MaxStatements }
    IN  {Def(b) : b \in Bodies}
        \cup {Node("class_definition", "", <<Id("K"), Node("block", "", <<Def(b)>>)>>)
              : b \in Bodies}

RECURSIVE ChainRoot(_)
\* The node the `while current.type == "attribute"` loop ends on.
ChainRoot(n) == IF n.type = "attribute" THEN ChainRoot(n.children[1]) ELSE n

RECURSIVE ChainParts(_)
\* The attribute names the loop collects, leftmost first.
ChainParts(n) ==
    IF n.type = "attribute"
    THEN ChainParts(n.children[1]) \o <<n.children[Len(n.children)].text>>
    ELSE <<>>

\* extract_attribute_chain: the dotted text, NONE where the code returns None.
extract_attribute_chain(attr_node, include_last) ==
    LET current == ChainRoot(attr_node)
        parts == <<current.text>> \o ChainParts(attr_node)
    IN  IF current.type # "identifier" THEN NONE
        ELSE IF current.text \in {"self", "cls"} THEN NONE
        ELSE IF include_last THEN Dotted(parts)
        ELSE IF Len(parts) > 1 THEN Dotted(SubSeq(parts, 1, Len(parts) - 1))
        ELSE parts[1]

\* The parent types under which a bare attribute access is recorded.
AttributeContexts ==
    {"argument_list", "assignment", "expression_statement", "return_statement", "yield",
     "comparison_operator", "binary_operator", "boolean_operator",
     "conditional_expression", "tuple", "list", "dictionary", "set", "subscript"}

\* What traverse adds for one node by itself: [callees, calls_super].
\* name[0].isupper() holds for Helper and K among the identifiers used.
Visit(n, parent) ==
    LET func_node == n.children[1]
        chain == IF n.type = "call"
                 THEN IF func_node.type = "attribute"
                      THEN extract_attribute_chain(func_node, FALSE) ELSE NONE
                 ELSE extract_attribute_chain(n, FALSE)
    IN  IF n.type = "call" /\ func_node.type = "identifier"
        THEN [callees |-> {func_node.text} \ {"super"}, calls_super |-> func_node.text = "super"]
        ELSE IF n.type = "call" /\ func_node.type = "attribute" /\ chain # NONE
        THEN [callees |-> {chain} \ {"super"}, calls_super |-> chain = "super"]
        ELSE IF n.type = "attribute" /\ parent \in AttributeContexts
                /\ chain # NONE /\ chain # "super"
        THEN [callees |-> {chain}, calls_super |-> FALSE]
        ELSE IF n.type = "identifier"
                /\ parent \in {"argument_list", "assignment", "expression_statement"}
                /\ n.text \in {"Helper", "K"}
        THEN [callees |-> {n.text}, calls_super |-> FALSE]
        ELSE [callees |-> {}, calls_super |-> FALSE]

RECURSIVE traverse(_, _)
\* traverse: the node itself, then its children in order.
traverse(n, parent) ==
    LET own == Visit(n, parent)
        sub == [i \in 1..Len(n.children) |-> traverse(n.children[i], n.type)]
    IN  [callees |-> own.callees \cup UNION {sub[i].callees : i \in 1..Len(n.children)},
         calls_super |-> own.calls_super \/ \E i \in 1..Len(n.children) : sub[i].calls_super]

RECURSIVE ListOf(_)
\* list(callees): the elements of the set, each once, in some order.
ListOf(S) == IF S = {} THEN <<>> ELSE LET x == CHOOSE x \in S : TRUE IN <<x>> \o ListOf(S \ {x})

\* extract_callees: [callees, calls_super] of a definition node.
extract_callees(node) ==
    The({ [callees |-> ListOf(r.callees), calls_super |-> r.calls_super]
          : r \in {traverse(node, "module")} })

\* find_classes on a class_definition node: calls_super is not passed on
\* (`callees, _ = ...`), so the symbol keeps the default.
ClassSymbol(node) ==
    [name |-> node.children[1].text, node_type |-> "class", host_class |-> NONE,
     callees |-> extract_callees(node).callees, calls_super |-> FALSE, node |-> node]

\* find_functions on a function_definition node met under current_class.
FunctionSymbol(node, current_class) ==
    The({ [name |-> node.children[1].text,
           node_type |-> IF current_class # NONE THEN "method" ELSE "function",
           host_class |-> current_class,
           callees |-> r.callees, calls_super |-> r.calls_super, node |-> node]
          : r \in {extract_callees(node)} })

\* The symbols find_classes and find_functions yield for a definition at
\* module level (node is kept for the properties only).
SymbolsOf(definition) ==
    IF definition.type = "class_definition"
    THEN { ClassSymbol(definition),
           FunctionSymbol(definition.children[2].children[1], definition.children[1].text) }
    ELSE { FunctionSymbol(definition, NONE) }

\* The extractor applied to one definition; the store and the file system
\* take no part.
InitExtract ==
    /\ fs = [f \in Files |-> [exists |-> FALSE, mtime |-> 1, content |-> SRC_GEN]]
    /\ file_cache = [f \in Files |-> <<>>]
    /\ symbol_index = <<>>
    /\ indexed = NONE
    /\ tree_cache = [f \in Files |-> <<>>]
    /\ last \in { [op |-> "source", definition |-> d] : d \in Definitions }
    /\ pc = [p \in Procs |-> "idle"]
    /\ scan = [p \in Procs |-> NoScan]
    /\ trees = [p \in Procs |-> [f \in Files |-> <<>>]]

Extract ==
    /\ last.op = "source"
    /\ last' = [op |-> "find", definition |-> last.definition,
                symbols |-> SymbolsOf(last.definition)]
    /\ UNCHANGED <<fs, file_cache, symbol_index, indexed, tree_cache, pc, scan, trees>>

SpecExtract == InitExtract /\ [][Extract]_vars

\* ------------------------------------------------------------- properties of the extractor
AttributeNames == {"data", "run", "registry", "config", "CONFIG", "b", "c", "name", "m"}

\* The texts that are r or a dotted chain rooted at r.
RootedAt(r) ==
    { Dotted(<<r>> \o t) : t \in UNION { [1..k -> AttributeNames] : k \in 0..2 } }

Extracted == IF last.op = "find" THEN last.symbols ELSE {}

\* C21: the callees of every extracted symbol hold no string twice, no
\* `super`, and no string that is `self` or `cls` or a chain rooted at one
\* of them.
C21_CalleesClean ==
    \A s \in Extracted :
        /\ \A i, j \in 1..Len(s.callees) : s.callees[i] = s.callees[j] => i = j
        /\ \A i \in 1..Len(s.callees) :
               s.callees[i] \notin {"super"} \cup RootedAt("self") \cup RootedAt("cls")

RECURSIVE HasSuperCall(_)
\* The node contains a call whose function is the identifier super.
HasSuperCall(n) ==
    \/ n.type = "call" /\ n.children[1].type = "identifier" /\ n.children[1].text = "super"
    \/ \E i \in 1..Len(n.children) : HasSuperCall(n.children[i])

\* C22: every extracted symbol, class, function or method, has calls_super
\* true exactly when its definition contains a call super(...).
C22_CallsSuperIffSuperCall ==
    \A s \in Extracted : s.calls_super <=> HasSuperCall(s.node)

RECURSIVE BareAccesses(_, _)
\* The full chains of the attribute accesses that stand in one of the
\* recorded positions and whose root is an identifier other than self, cls.
BareAccesses(n, parent) ==
    (IF n.type = "attribute" /\ parent \in AttributeContexts
        /\ ChainRoot(n).type = "identifier" /\ ChainRoot(n).text \notin {"self", "cls"}
     THEN {Dotted(<<ChainRoot(n).text>> \o ChainParts(n))} ELSE {})
    \cup UNION { BareAccesses(n.children[i], n.type) : i \in 1..Len(n.children) }

\* C23: every bare attribute access in a recorded position contributes its
\* full chain, last segment included, to the callees of the symbol.
C23_BareAccessFullChain ==
    \A s \in Extracted :
        \A chain \in BareAccesses(s.node, "module") :
            \E i \in 1..Len(s.callees) : s.callees[i] = chain

\* ------------------------------------------------------------- one callee resolved at a time
\* A module outside the project root (an installed copy of gen.py) that the
\* semantic analyser can name.
F_SITE == "/site/gen.py"

\* The calls of _resolve_single_dependency made: the callee by its segments,
\* the import map of the context symbol (import utils.helper; from utils
\* import helper; import build.gen) and the definitions the semantic
\* analyser returns for the callee.
ResolveInputs ==
    { [segments |-> c, imports |-> [n \in {Dotted(k)} |-> k], jedi_results |-> j] :
        c \in {<<"utils", "helper">>, <<"helper">>, <<"build", "gen">>},
        k \in {<<"utils", "helper">>, <<"build", "gen">>},
        j \in {<<>>} }
    \cup
    { [segments |-> c, imports |-> [n \in {"helper"} |-> <<"utils", "helper">>],
       jedi_results |-> j] :
        c \in {<<"helper">>, <<"gen_tool">>},
        j \in JediDefinitions \cup {<< [name |-> "gen_tool", module_path |-> F_SITE] >>} }

\* _resolve_single_dependency for a callee of the function run of main.py.
\* file is the file the import path resolved to and names the names of the
\* symbols get_file_symbols gave for it (both kept for the properties only).
ResolveSingle(in) ==
    LET callee_name == Dotted(in.segments)
        context_symbol ==
            [find_functions(Parse(SRC_MAIN), SRC_MAIN, F_MAIN)[2] EXCEPT !.imports = in.imports]
        file == IF callee_name \in DOMAIN in.imports
                THEN resolve_import_path(in.imports[callee_name], F_MAIN) ELSE NONE
    IN  \E order \in WalkOrders(FALSE) :
        \E r \in {resolve_single_dependency(Store, callee_name, context_symbol,
                                            in.jedi_results, order)} :
        \E g \in {IF file = NONE THEN [classes |-> <<>>, functions |-> <<>>]
                  ELSE get_file_symbols(Store, file)} :
            /\ SetStore(r.st)
            /\ last' = [op |-> "resolve_single", segments |-> in.segments,
                        imports |-> in.imports, file |-> file,
                        names |-> {(g.classes \o g.functions)[i].name
                                   : i \in 1..Len(g.classes \o g.functions)},
                        dep |-> r.dep, via |-> r.via]
            /\ UNCHANGED fs

InitResolve ==
    /\ fs = [f \in Files \cup {F_SITE} |->
               [exists |-> TRUE, mtime |-> 1,
                content |-> IF f = F_MAIN THEN SRC_MAIN
                            ELSE IF f = F_UTILS THEN SRC_UTILS1 ELSE SRC_GEN]]
    /\ file_cache = [f \in Files \cup {F_SITE} |-> <<>>]
    /\ symbol_index = <<>>
    /\ indexed = NONE
    /\ tree_cache = [f \in Files \cup {F_SITE} |-> <<>>]
    /\ last = NoResult
    /\ pc = [p \in Procs |-> "idle"]
    /\ scan = [p \in Procs |-> NoScan]
    /\ trees = [p \in Procs |-> [f \in Files |-> <<>>]]

NextResolve ==
    \/ \E f \in Mutable : \E c \in Contents(f) : \E m \in 1..MaxMtime : ModifyFile(f, c, m)
    \/ \E force \in BOOLEAN : BuildIndex(force)
    \/ \E in \in ResolveInputs : ResolveSingle(in)

SpecResolve == InitResolve /\ [][NextResolve]_vars

\* C24: when the callee is a key of the import map and its import path
\* resolves to a file, the import strategy yields the dependency exactly
\* when that file has a symbol named by the last segment of the callee.
C24_LastSegmentSearched ==
    (last.op = "resolve_single" /\ Dotted(last.segments) \in DOMAIN last.imports
     /\ last.file # NONE)
        => (last.via = "import" <=> last.segments[Len(last.segments)] \in last.names)

\* C25: a dependency of the semantic fallback lies in a file of the project,
\* and the store never holds a row of a file outside the project root.
C25_FallbackStaysUnderRoot ==
    /\ (last.op = "resolve_single" /\ last.via = "jedi") => last.dep[1].file_path \in Files
    /\ file_cache[F_SITE] = <<>>
    /\ \A i \in 1..Len(symbol_index) : symbol_index[i].file_path \in Files

\* ------------------------------------------------------------- module paths resolved
\* The package file of the project root.
F_INIT == "/p/__init__.py"

\* The dotted paths resolved, by their segments: .utils.helper, .utils,
\* ..utils.helper, ..utils, .gen and utils.helper.
ImportPaths ==
    { <<"", "utils", "helper">>, <<"", "utils">>, <<"", "", "utils", "helper">>,
      <<"", "", "utils">>, <<"", "gen">>, <<"utils", "helper">> }

\* Any of the files may be there or not.
InitImportPath ==
    /\ fs \in [Files \cup {F_INIT} ->
                 {[exists |-> e, mtime |-> 1, content |-> SRC_GEN] : e \in BOOLEAN}]
    /\ file_cache = [f \in Files \cup {F_INIT} |-> <<>>]
    /\ symbol_index = <<>>
    /\ indexed = NONE
    /\ tree_cache = [f \in Files \cup {F_INIT} |-> <<>>]
    /\ last = NoResult
    /\ pc = [p \in Procs |-> "idle"]
    /\ scan = [p \in Procs |-> NoScan]
    /\ trees = [p \in Procs |-> [f \in Files |-> <<>>]]

\* _resolve_import_path(import_path, current_file)
ResolveImportPath(import_path, current_file) ==
    /\ last' = [op |-> "resolve_import_path", import_path |-> import_path,
                current_file |-> current_file,
                file |-> resolve_import_path(import_path, current_file)]
    /\ UNCHANGED <<fs, file_cache, symbol_index, indexed, tree_cache, pc, scan, trees>>

SpecImportPath ==
    InitImportPath
    /\ [][\E m \in ImportPaths : \E f \in {F_MAIN, F_GEN} : ResolveImportPath(m, f)]_vars

\* The one candidate of a relative path: k - 1 directories up from the
\* directory of the current file, then the remaining segments.
Candidate(import_path, current_file) ==
    LET k == LeadingEmpty(import_path)
    IN  PathUnder(Up(DirOf(current_file), k - 1),
                  SubSeq(import_path, k + 1, Len(import_path)))

\* C26: a relative path resolves to candidate.py when that exists, else to
\* candidate/__init__.py when that exists, else to nothing.
C26_RelativeOnlyCandidate ==
    (last.op = "resolve_import_path" /\ last.import_path[1] = "")
        => LET candidate == Candidate(last.import_path, last.current_file)
           IN  last.file = IF Exists(candidate \o ".py") THEN candidate \o ".py"
                           ELSE IF Exists(candidate \o "/__init__.py")
                           THEN candidate \o "/__init__.py"
                           ELSE NONE

\* ------------------------------------------------------------- two parsers, one store
\* _parse_file_cached of the ProjectParser of process p.
ParseFileCached(p, file_path) ==
    \E r \in {parse_file_cached(PStore(p), file_path)} :
        /\ SetPStore(p, r.st)
        /\ last' = [op |-> "parse_file_cached", file_path |-> file_path, ok |-> r.ok,
                    tree |-> r.tree, source_bytes |-> r.source_bytes]
        /\ UNCHANGED <<fs, tree_cache, pc, scan>>

\* Two processes parse the files of the project while utils.py is
\* rewritten.
NextParse ==
    \/ \E f \in Mutable : \E c \in Contents(f) : \E m \in 1..MaxMtime : ModifyFile(f, c, m)
    \/ \E p \in Procs : \E f \in {F_MAIN, F_UTILS} : ParseFileCached(p, f)

SpecParse == Init /\ [][NextParse]_vars

\* C27: the tree _parse_file_cached returns is the parse of the bytes it
\* returns with it.
C27_TreeIsParseOfBytes ==
    (last.op = "parse_file_cached" /\ last.ok) => last.tree = Parse(last.source_bytes)

\* ------------------------------------------------------------- invalidation
\* Files are invalidated and re-ingested and symbols are looked up while
\* utils.py is rewritten and the index is built.
NextInvalidate ==
    \/ \E f \in Mutable : \E c \in Contents(f) : \E m \in 1..MaxMtime : ModifyFile(f, c, m)
    \/ \E force \in BOOLEAN : BuildIndex(force)
    \/ \E f \in Files : GetFileSymbols(f)
    \/ \E f \in Files : InvalidateFile(f)
    \/ \E n \in {"helper", "helper2", "Main"} : FindSymbol(n, NONE, NONE)

SpecInvalidate == Init /\ [][NextInvalidate]_vars

\* The store is indexed and holds no symbol row of f.
Invalidated(f) ==
    indexed = "true" /\ \A i \in 1..Len(symbol_index) : symbol_index[i].file_path # f

\* C28: invalidate_file(f) empties f's file_cache row, f's symbol rows and
\* f's tree and changes nothing else; on an indexed store without rows of f
\* a find_symbol of a name that f defines and no row of another file carries
\* returns nothing, and f stays without rows until get_file_symbols(f) or
\* build_index(force=True).
C28_InvalidateFrame ==
    /\ [][ last'.op = "invalidate_file" =>
             /\ file_cache' = [file_cache EXCEPT ![last'.file_path] = <<>>]
             /\ symbol_index' = SelectSeq(symbol_index,
                                          LAMBDA r: r.file_path # last'.file_path)
             /\ tree_cache' = [tree_cache EXCEPT ![last'.file_path] = <<>>]
             /\ indexed' = indexed ]_vars
    /\ [][ \A f \in Files :
             (Invalidated(f)
              /\ ~(last'.op = "get_file_symbols" /\ last'.file_path = f)
              /\ ~(last'.op = "build_index" /\ last'.force))
                 => Invalidated(f)' ]_vars
    /\ [][ \A f \in Files :
             (last'.op = "find_symbol" /\ Invalidated(f)
              /\ last'.name \in {s.name : s \in FreshSymbols(f)}
              /\ \A i \in 1..Len(symbol_index) : symbol_index[i].name # last'.name)
                 => last'.symbol = <<>> ]_vars

\* find_symbol("helper2") returned nothing on an indexed store although
\* utils.py defines helper2: the file was invalidated after the build.
C28_Witness ==
    /\ last.op = "find_symbol" /\ last.name = "helper2" /\ last.symbol = <<>>
    /\ indexed = "true"
    /\ Exists(F_UTILS) /\ fs[F_UTILS].content = SRC_UTILS2
    /\ file_cache[F_UTILS] = <<>> /\ file_cache[F_MAIN] # <<>>
    /\ Invalidated(F_UTILS) /\ ~Invalidated(F_MAIN)

\* ------------------------------------------------------------- a forced rebuild
\* The index is rebuilt after files inside and outside the walk have been
\* ingested through get_file_symbols: gen.py lies in a pruned directory,
\* /site/gen.py outside the project root, and utils.py can be deleted.
NextRebuild ==
    \/ \E f \in Mutable : \E c \in Contents(f) : \E m \in 1..MaxMtime : ModifyFile(f, c, m)
    \/ \E f \in Mutable : DeleteFile(f)
    \/ \E f \in Files \cup {F_SITE} : GetFileSymbols(f)
    \/ \E force \in BOOLEAN : BuildIndex(force)

SpecRebuild == InitResolve /\ [][NextRebuild]_vars

\* The symbols extracted from the text the file cache `fc` holds for f.
ExtractedFrom(fc, f) ==
    IF fc[f] = <<>> THEN {}
    ELSE Range(find_classes(Parse(fc[f][1].source_code), fc[f][1].source_code, f))
         \cup Range(find_functions(Parse(fc[f][1].source_code), fc[f][1].source_code, f))

\* C29: right after build_index(force=True) the rows of symbol_index are
\* the symbols extracted from the files the walk found, each read through
\* the file cache; the file_cache rows of all other files are as they were
\* and the walked files have a row valid for their modification time.
C29_ForcedRebuildExact ==
    [][ (last'.op = "build_index" /\ last'.force) =>
          /\ Range(symbol_index') = UNION {ExtractedFrom(file_cache', f) : f \in PythonFiles}
          /\ \A f \in PythonFiles :
                 file_cache'[f] # <<>> /\ file_cache'[f][1].mtime = fs[f].mtime
          /\ \A f \in DOMAIN file_cache : f \notin PythonFiles => file_cache'[f] = file_cache[f]
          /\ indexed' = "true" ]_vars

\* A forced rebuild is over: the file_cache rows of the deleted utils.py, of
\* gen.py in the pruned directory and of /site/gen.py are there, and
\* symbol_index holds rows of main.py only.
C29_Witness ==
    /\ last.op = "build_index" /\ last.force
    /\ ~Exists(F_UTILS)
    /\ file_cache[F_UTILS] # <<>> /\ file_cache[F_GEN] # <<>> /\ file_cache[F_SITE] # <<>>
    /\ symbol_index # <<>>
    /\ \A i \in 1..Len(symbol_index) : symbol_index[i].file_path = F_MAIN

\* ------------------------------------------------------------- server.py: call_tool
\* The tool calls made: the name of the tool and the arguments, a record
\* of the keys the caller gave. delete_index is no tool of the server.
ToolCalls ==
    {[name |-> "query_class", arguments |-> a] :
        a \in {[project_root |-> ROOT, class_name |-> c] : c \in {"Main", "Helper", "missing"}}
              \cup {[project_root |-> ROOT], [class_name |-> "Main"]}}
    \cup {[name |-> "query_function", arguments |-> a] :
        a \in {[project_root |-> ROOT, function_name |-> f] : f \in {"run", "missing"}}
              \cup {[project_root |-> ROOT]}}
    \cup {[name |-> "rebuild_index", arguments |-> a] : a \in {[project_root |-> ROOT], <<>>}}
    \cup {[name |-> "list_symbols", arguments |-> a] :
        a \in {[project_root |-> ROOT], [project_root |-> ROOT, file_path |-> F_UTILS], <<>>}}
    \cup {[name |-> "delete_index", arguments |-> [project_root |-> ROOT]]}

\* arguments.get(key)
Get(arguments, key) == IF key \in DOMAIN arguments THEN arguments[key] ELSE NONE

\* The handler call_tool dispatches to: the set of its outcomes
\* [raised, payload, st], one for each answer of the semantic analyser.
\* raised is the exception the handler ends with, NONE when it returns.
Handlers(st, name, arguments, order) ==
    LET Raise(e, st1) == {[raised |-> e, payload |-> NONE, st |-> st1]}
        Return(payload, st1) == {[raised |-> NONE, payload |-> payload, st |-> st1]}
        Query(op, t, what, asked) ==
            IF t.symbol = <<>>
            THEN Return([error |-> what \o " '" \o asked \o "' not found in project",
                         suggestion |-> "check the name or rebuild the index"], t.st)
            ELSE UNION { Return(a.result, a.st) :
                           a \in {Analysis(op, t.st, t.symbol[1], jedi, order)
                                  : jedi \in JediAnswers(t.symbol[1])} }
    IN  IF name \notin {"query_class", "query_function", "rebuild_index", "list_symbols"}
        THEN Raise("ValueError", st)
        ELSE IF "project_root" \notin DOMAIN arguments THEN Raise("KeyError", st)
        ELSE IF name = "query_class"
        THEN IF "class_name" \notin DOMAIN arguments THEN Raise("KeyError", st)
             ELSE UNION { Query(name, t, "Class", arguments.class_name) :
                            t \in {ClassTarget(st, arguments.class_name,
                                               Get(arguments, "file_path"), order)} }
        ELSE IF name = "query_function"
        THEN IF "function_name" \notin DOMAIN arguments THEN Raise("KeyError", st)
             ELSE UNION { Query(name, t, "Function", arguments.function_name) :
                            t \in {FunctionTarget(st, arguments.function_name,
                                                  Get(arguments, "file_path"),
                                                  Get(arguments, "host_class"), order)} }
        ELSE IF name = "rebuild_index"
        THEN Return([status |-> "success"], build_index(st, TRUE, order))
        ELSE UNION { IF r.payload = ErrorPayload("AttributeError")
                     THEN Raise("AttributeError", r.st) ELSE Return(r.payload, r.st) :
                       r \in {handle_list_symbols(st, Get(arguments, "file_path"), order)} }

\* A call_tool without the `except Exception` clause: what is not a KeyError
\* leaves the call. C30 does not hold of it.
call_tool_KeyErrorOnly(outcome) ==
    IF outcome.raised = "KeyError"
    THEN [raised |-> NONE,
          payload |-> [error |-> "Missing required parameter", code |-> "INVALID_PARAMS"]]
    ELSE [raised |-> outcome.raised, payload |-> outcome.payload]

\* call_tool on the outcome of its handler: [raised, payload], raised the
\* exception that leaves the call, NONE when the call returns.
call_tool(outcome) ==
    IF outcome.raised = "KeyError"
    THEN [raised |-> NONE,
          payload |-> [error |-> "Missing required parameter", code |-> "INVALID_PARAMS"]]
    ELSE IF outcome.raised # NONE
    THEN [raised |-> NONE, payload |-> ErrorPayload(outcome.raised)]
    ELSE [raised |-> NONE, payload |-> outcome.payload]

\* One tool call. handler is what the handler ended with (kept for the
\* properties only).
CallTool(call) ==
    \E order \in WalkOrders(call.name = "rebuild_index") :
        \E outcome \in Handlers(Store, call.name, call.arguments, order) :
            \E r \in {call_tool(outcome)} :
                /\ SetStore(outcome.st)
                /\ last' = [op |-> "call_tool", name |-> call.name,
                            arguments |-> call.arguments, handler |-> outcome.raised,
                            raised |-> r.raised, payload |-> r.payload]
                /\ UNCHANGED fs

NextTools ==
    \/ \E f \in Mutable : \E c \in Contents(f) : \E m \in 1..MaxMtime : ModifyFile(f, c, m)
    \/ \E call \in ToolCalls : CallTool(call)

SpecTools == Init /\ [][NextTools]_vars

\* The required arguments of the tools.
Required(name) ==
    {"project_root"} \cup (IF name = "query_class" THEN {"class_name"}
                           ELSE IF name = "query_function" THEN {"function_name"} ELSE {})

\* C30: a tool call always returns; a call of a tool without a required
\* argument returns the INVALID_PARAMS payload, a call of an unknown tool
\* and a call whose handler raises anything else the INTERNAL_ERROR payload,
\* and a query of a name that is not in the project a payload with an error
\* text and a suggestion.
C30_CallToolAlwaysReturns ==
    last.op = "call_tool" =>
        /\ last.raised = NONE
        /\ LET known == last.name \in {"query_class", "query_function", "rebuild_index",
                                       "list_symbols"}
               complete == Required(last.name) \subseteq DOMAIN last.arguments
               code == IF "code" \in DOMAIN last.payload THEN last.payload.code ELSE NONE
           IN  /\ (known /\ ~complete) => code = "INVALID_PARAMS"
               /\ ~known => code = "INTERNAL_ERROR"
               /\ last.handler \notin {NONE, "KeyError"} => code = "INTERNAL_ERROR"
               /\ (known /\ complete /\ last.handler = NONE) => code = NONE
               /\ (known /\ complete
                   /\ "missing" \in {Get(last.arguments, "class_name"),
                                     Get(last.arguments, "function_name")})
                      => DOMAIN last.payload = {"error", "suggestion"}

\* list_symbols for the whole project: its handler raised AttributeError and
\* the call returned the INTERNAL_ERROR payload.
C30_Witness ==
    /\ last.op = "call_tool" /\ last.name = "list_symbols"
    /\ last.handler = "AttributeError" /\ last.raised = NONE
    /\ last.payload = ErrorPayload("AttributeError")

====
